---- MODULE Spec2Model ----
(***************************************************************************)
(* Verification model of trade-calendar.                                   *)
(*                                                                         *)
(*   - the session resolver   TradeCalendar.prototype.timeInfo             *)
(*   - holiday normalisation  TradeCalendar.prototype.findHolidays         *)
(*   - the virtual transform  VirtualCalendar.prototype.reload, timestamp  *)
(*                            and realStamp                                *)
(*   - real coordinates       TradeCalendar.prototype.realTimeInfo         *)
(*   - the scheduler          CalendarManager                              *)
(*                                                                         *)
(* Time is counted in ticks.  A calendar day has DayLen ticks; day number  *)
(* d has the wall clock ticks d*DayLen .. d*DayLen + DayLen - 1.  A zone   *)
(* is its offset from UTC in ticks: the instant of wall clock w in a zone  *)
(* of offset z is w - z.  Day 0 is a Thursday and is written 20170727, so  *)
(* that the dates of the model cross the end of a month.  Instants are     *)
(* counted from the midnight of day 0 in UTC: that instant is the number 0 *)
(* to JavaScript's truth tests, as the midnight of Thursday 1970-01-01 is. *)
(***************************************************************************)
EXTENDS Integers, Sequences, FiniteSets, TLC

\* ------------------------------------------------------------------ bounds
NumDays == 9            \* days 0 .. NumDays-1 are modelled
DayLen == 6             \* ticks in one calendar day
MaxAnswer == 2          \* intervals in one answer of the holiday source
MaxHolidays == 3        \* intervals in one input of the normalisation runs
MaxTime == 5            \* latest tick of an interval in a normalisation run
MaxReal == 6            \* latest real time handed to the virtual transform
MaxNow == 3             \* latest reading of Date.now() in a transform run
MaxClock == 6           \* ticks a run of the manager lasts
MaxStarts == 2          \* calls of start in a run of the manager
MaxStops == 1           \* calls of stop or stopAll in a run of the manager
MaxFailures == 1        \* failures of the holiday source in a run of the manager
MaxSleeps == 1          \* times the host is late in a run of the manager
MaxEarly == 1           \* times the host runs a timer early in a run of the manager
Jitter == 1             \* ticks by which such a timer is early

\* --------------------------------------------------- configuration, dates
FirstWeekday == 4       \* day 0 is a Thursday (moment's days(): 0 = Sunday)
FirstDayOfMonth == 27   \* day 0 is the 27th of July 2017
JulyLength == 31
ConfigStart == 2        \* config.start, ticks after midnight
ConfigEnd == 4          \* config.end, ticks after midnight
ConfigAfterEnd == 5     \* config.after.end, ticks after midnight
RetryDelay == 1         \* 10 * 1000 milliseconds, in ticks

Day == 0 .. (NumDays - 1)
\* the direction argument as the list of values passed: <<>> when omitted
Directions == {<<>>, <<-1>>, <<0>>, <<1>>}

\* no TimeInfo
NoTimeInfo == [tradeDate |-> 0, timePeriods |-> <<>>, dayStart |-> 0, dayEnd |-> 0]

\* an answer of the holiday source: null (or undefined), or a list
NullAnswer == [null |-> TRUE, items |-> <<>>]
ListAnswer(s) == [null |-> FALSE, items |-> s]

\* the process zone and the calendar zones (timezoneName) that are modelled
LocalZones == {0}
Timezones == {0, 2}

\* date.format('YYYYMMDD') read as an integer
FormatYMD(d) ==
  IF FirstDayOfMonth + d <= JulyLength
    THEN 20170700 + FirstDayOfMonth + d
    ELSE 20170800 + (FirstDayOfMonth + d - JulyLength)

Dates == {FormatYMD(d) : d \in Day}

\* moment.tz(_format(date), timezoneName): the day a YYYYMMDD integer names
ParseYMD(ymd) == CHOOSE d \in Day : FormatYMD(d) = ymd

\* date.days()
Days(d) == (d + FirstWeekday) % 7

\* days > 0 && days < 6
IsWeekdayOffByOne(d) == Days(d) >= 0 /\ Days(d) < 6
IsWeekday(d) == Days(d) > 0 /\ Days(d) < 6

\* ------------------------------------------------ holiday normalisation
Interval(a, b) == [start |-> a, end |-> b]

\* holidays.sort((a, b) => a.start - b.start), a stable sort: x goes after
\* every element whose start is not later than its own
RECURSIVE InsertDescending(_, _)
InsertDescending(x, s) ==
  IF s = <<>> THEN <<x>>
  ELSE IF s[1].start >= x.start THEN <<s[1]>> \o InsertDescending(x, Tail(s))
  ELSE <<x>> \o s

RECURSIVE Insert(_, _)
Insert(x, s) ==
  IF s = <<>> THEN <<x>>
  ELSE IF s[1].start <= x.start THEN <<s[1]>> \o Insert(x, Tail(s))
  ELSE <<x>> \o s

RECURSIVE SortByStart(_)
SortByStart(s) ==
  IF s = <<>> THEN <<>>
  ELSE Insert(s[Len(s)], SortByStart(SubSeq(s, 1, Len(s) - 1)))

\* one round of the forEach of findHolidays: rs is the result so far, its
\* last element is pre
MergeOneKeepTouching(rs, holiday) ==
  IF rs = <<>> THEN <<holiday>>
  ELSE IF holiday.start >= rs[Len(rs)].end THEN Append(rs, holiday)
  ELSE [rs EXCEPT ![Len(rs)].end = holiday.end]

MergeOne(rs, holiday) ==
  IF rs = <<>> THEN <<holiday>>
  ELSE IF holiday.start > rs[Len(rs)].end THEN Append(rs, holiday)
  ELSE [rs EXCEPT ![Len(rs)].end = holiday.end]

RECURSIVE MergeAll(_, _)
MergeAll(rs, rest) ==
  IF rest = <<>> THEN rs
  ELSE MergeAll(MergeOne(rs, Head(rest)), Tail(rest))

\* findHolidays, given the answer of this._holidayFinder(start, end)
FindHolidays(answer) ==
  IF answer.null THEN <<>>
  ELSE MergeAll(<<>>, SortByStart(answer.items))

\* ------------------------------------------------------------------ state
VARIABLES
  timezoneName,   \* the calendar's zone (offset of this.timezoneName)
  localZone,      \* the zone of the process (moment's local mode)
  pc,             \* "idle", "loop" (inside timeInfo's for) or "done"
  argDate,        \* the date argument of the running timeInfo call
  argDirection,   \* its direction argument (<<>> when omitted)
  date,           \* the loop's candidate day
  direction,      \* the normalised direction
  answer,         \* what the holiday source answered for the candidate day
  holidays,       \* findHolidays' result for that answer
  timePeriods,    \* the periods pushed so far
  trail,          \* the days the loop has passed over, in order
  result,         \* the TimeInfo returned, NoTimeInfo while there is none
  \* a run of findHolidays on its own
  hpc,            \* "input", "found" or "again"
  hInput,         \* what this._holidayFinder answered
  hOutput,        \* findHolidays' result
  hAgain,         \* findHolidays' result when the finder answers hOutput
  \* a virtual calendar
  vpc,            \* "ready", "virtual" (timestamp returned), "real", or
                  \* "failed" when the constructor threw
  vConfig,        \* this._config.virtual after the last merge
  vError,         \* what the last reload threw, "" when it returned
  strategy,       \* this.strategy
  startTime,      \* this.startTime
  virtualBase,    \* this._virtualBase
  realBase,       \* this._realBase
  timeRatio,      \* this._timeRatio, a fraction <<numerator, denominator>>
  vTime,          \* the real time handed to timestamp
  vVirtual,       \* what timestamp returned
  vReal,          \* what realStamp returned for vVirtual
  vWait,          \* the last setTimeout or setTimeoutAt call of the calendar
  \* realTimeInfo
  realInfo,       \* what realTimeInfo returned, NoRealInfo while there is none
  \* a CalendarManager and its calendars
  clock,          \* Date.now()
  source,         \* what the holiday source knows of each day
  calendars,      \* this.calendars: the calendar bound to each name, 0 for none
  cal,            \* the fields the manager keeps on each calendar object
  timers,         \* the pending timers of the host
  passes,         \* the calls of setTimeInfo suspended on an await, oldest first
  events,         \* what the latest step of the manager emitted, in order
  emitted,        \* what the manager emitted before that step
  rejected,       \* the calls of start that threw or rejected, oldest first
  unhandled,      \* the errors that left a timer callback, oldest first
  stopped,        \* per calendar: stop was called and start was not since
  starts,         \* calls of start so far
  stops,          \* calls of stop and stopAll so far
  failures,       \* failures of the holiday source so far
  sleeps,         \* times the host was late so far
  earlies         \* times the host ran a timer early so far

hvars == <<hpc, hInput, hOutput, hAgain>>
vvars == <<vpc, vConfig, vError, strategy, startTime, virtualBase, realBase, timeRatio,
           vTime, vVirtual, vReal, vWait>>
tvars == <<realInfo>>
mvars == <<clock, source, calendars, cal, timers, passes, events, emitted, rejected, unhandled,
           stopped, starts, stops, failures, sleeps, earlies>>
rvars == <<timezoneName, localZone, pc, argDate, argDirection, date, direction,
           answer, holidays, timePeriods, trail, result>>

\* ------------------------------------------------------------- timeInfo
\* moment(time).format(...): the wall clock of an instant in the process zone
FormatLocal(time) == time + localZone

\* moment.tz(text, timezoneName).valueOf(): the instant of a wall clock in
\* the calendar's zone
ParseTz(wall) == wall - timezoneName

\* _stamp
StampIdentity(time) == time
Stamp(time) == ParseTz(FormatLocal(time))

\* _point2timestamp: moment(_format(date)) is parsed in the process zone
Point2Timestamp(d, point) == (d * DayLen + point) - localZone

\* date.startOf('day').valueOf() and date.endOf('day').valueOf()
StartOfDay(d) == ParseTz(d * DayLen)
EndOfDay(d) == ParseTz(d * DayLen + DayLen - 1)

\* direction = direction < 0 ? -1 : 1 (undefined < 0 is false)
Normalise(dir) == IF dir # <<>> /\ dir[1] < 0 THEN -1 ELSE 1

\* the body of holidays.forEach in timeInfo, for one holiday
PushPeriods(periods, holiday, start, end) ==
  LET before == IF start < holiday.start
                  THEN Append(periods, Interval(Stamp(start), Stamp(holiday.start)))
                  ELSE periods
  IN  IF end > holiday.end
        THEN Append(before, Interval(Stamp(holiday.end), Stamp(end)))
        ELSE before

RECURSIVE ForEachHoliday(_, _, _, _)
ForEachHoliday(periods, hs, start, end) ==
  IF hs = <<>> THEN periods
  ELSE ForEachHoliday(PushPeriods(periods, Head(hs), start, end), Tail(hs), start, end)

\* the periods of candidate day d once findHolidays returned hs
DayPeriods(periods, d, hs) ==
  LET start == Point2Timestamp(d, ConfigStart)
      end == Point2Timestamp(d, ConfigEnd)
  IN  IF Len(hs) > 0
        THEN ForEachHoliday(periods, hs, start, end)
        ELSE Append(periods, Interval(Stamp(start), Stamp(end)))

\* what the holiday source may answer when asked about a day: null, or up to
\* MaxAnswer intervals, in any order, lying between the day's first tick and
\* the second tick of the following day.  AnswerShapes(n) are the lists of n
\* intervals in ticks after the day's midnight in the process zone, AnswerFor
\* moves them to day d.
ShapeTimes == 0 .. (DayLen + 1)
ShapeIntervals == {h \in [start : ShapeTimes, end : ShapeTimes] : h.start < h.end}
AnswerShapes(n) == [1 .. n -> ShapeIntervals]
AnswerFor(d, shape) ==
  ListAnswer([i \in 1 .. Len(shape) |->
                Interval(Point2Timestamp(d, shape[i].start),
                         Point2Timestamp(d, shape[i].end))])

RInit ==
  /\ timezoneName \in Timezones
  /\ localZone \in LocalZones
  /\ pc = "idle"
  /\ argDate = 0
  /\ argDirection = <<>>
  /\ date = 0
  /\ direction = 1
  /\ answer = NullAnswer
  /\ holidays = <<>>
  /\ timePeriods = <<>>
  /\ trail = <<>>
  /\ result = NoTimeInfo

\* timeInfo(date, direction) up to the first test of the loop
TimeInfo(ymd, dir) ==
  /\ pc = "idle"
  /\ pc' = "loop"
  /\ argDate' = ymd
  /\ argDirection' = dir
  /\ direction' = Normalise(dir)
  /\ date' = ParseYMD(ymd)
  /\ timePeriods' = <<>>
  /\ answer' = NullAnswer
  /\ holidays' = <<>>
  /\ trail' = <<>>
  /\ result' = NoTimeInfo
  /\ UNCHANGED <<timezoneName, localZone>>

\* a Saturday or Sunday: date.add(direction, 'day')
SkipWeekend ==
  /\ pc = "loop"
  /\ ~IsWeekday(date)
  /\ date + direction \in Day
  /\ date' = date + direction
  /\ trail' = Append(trail, [day |-> date, weekend |-> TRUE, reported |-> FALSE])
  /\ UNCHANGED <<timezoneName, localZone, pc, argDate, argDirection, direction,
                 answer, holidays, timePeriods, result>>

\* a weekday: ask for its holidays and push its periods; continue when the
\* holidays leave no period (holidays is local to the round), return otherwise
Weekday(ans) ==
  /\ pc = "loop"
  /\ IsWeekday(date)
  /\ LET hs == FindHolidays(ans)
         periods == DayPeriods(timePeriods, date, hs)
     IN  IF Len(hs) > 0 /\ Len(periods) = 0
           THEN /\ date + direction \in Day
                /\ date' = date + direction
                /\ trail' = Append(trail, [day |-> date, weekend |-> FALSE,
                                            reported |-> Len(ans.items) > 0])
                /\ UNCHANGED <<pc, answer, holidays, timePeriods, result>>
           ELSE /\ answer' = ans
                /\ holidays' = hs
                /\ timePeriods' = periods
                /\ result' = [tradeDate |-> FormatYMD(date),
                              timePeriods |-> periods,
                              dayStart |-> StartOfDay(date),
                              dayEnd |-> EndOfDay(date)]
                /\ pc' = "done"
                /\ UNCHANGED <<date, trail>>
  /\ UNCHANGED <<timezoneName, localZone, argDate, argDirection, direction>>

\* the test of the loop on a weekday, with every answer of the holiday source
\* of at most max intervals
VisitUpTo(max) ==
  /\ pc = "loop"
  /\ IsWeekday(date)
  /\ \/ \E n \in 0 .. max : \E shape \in AnswerShapes(n) :
          Weekday(AnswerFor(date, shape))
     \/ Weekday(NullAnswer)

RNext ==
  \/ \E ymd \in Dates, dir \in Directions : TimeInfo(ymd, dir)
  \/ SkipWeekend
  \/ VisitUpTo(MaxAnswer)

\* --------------------------------------------- findHolidays on its own
HolidayTimes == 0 .. MaxTime
HolidayIntervals == {h \in [start : HolidayTimes, end : HolidayTimes] : h.start < h.end}
HolidayInputs ==
  {ListAnswer(s) : s \in UNION {[1 .. n -> HolidayIntervals] : n \in 0 .. MaxHolidays}}
  \cup {NullAnswer}

HIdle ==
  /\ hpc = "idle"
  /\ hInput = NullAnswer
  /\ hOutput = <<>>
  /\ hAgain = <<>>

HInit ==
  /\ hpc = "input"
  /\ hInput \in HolidayInputs
  /\ hOutput = <<>>
  /\ hAgain = <<>>

\* findHolidays(start, end) when the finder answers hInput
Find ==
  /\ hpc = "input"
  /\ hOutput' = FindHolidays(hInput)
  /\ hpc' = "found"
  /\ UNCHANGED <<hInput, hAgain>>

\* findHolidays(start, end) when the finder answers the earlier result
FindAgain ==
  /\ hpc = "found"
  /\ hAgain' = FindHolidays(ListAnswer(hOutput))
  /\ hpc' = "again"
  /\ UNCHANGED <<hInput, hOutput>>

HNext == Find \/ FindAgain

\* -------------------------------------------------- virtual transform
\* JavaScript numbers as exact fractions <<numerator, denominator>>,
\* denominator > 0, in lowest terms; NaN is <<0, 0>> and every operation on
\* NaN gives NaN (no divisor of the model is zero)
RECURSIVE Gcd(_, _)
Gcd(a, b) == IF b = 0 THEN a ELSE Gcd(b, a % b)
Abs(n) == IF n < 0 THEN -n ELSE n
Frac(n, d) ==
  LET sn == IF d < 0 THEN -n ELSE n
      sd == Abs(d)
      g == Gcd(Abs(sn), sd)
  IN  IF d = 0 THEN <<0, 0>> ELSE <<sn \div g, sd \div g>>
NaN == <<0, 0>>
Num(n) == <<n, 1>>
Plus(a, b) == Frac(a[1] * b[2] + b[1] * a[2], a[2] * b[2])
Minus(a, b) == Frac(a[1] * b[2] - b[1] * a[2], a[2] * b[2])
Times(a, b) == Frac(a[1] * b[1], a[2] * b[2])
Over(a, b) == Frac(a[1] * b[2], a[2] * b[1])

\* 24 * 60 * 60 * 1000 in ticks
OneDayMs == DayLen

\* the configurations: vc.strategy ("" when absent or falsy, "OTHER" for a
\* value that is none of the four), vc.standard, vc.custom and vc.oneDay
\* (<<>> when absent), and the instant of construction
Strategies == {"", "SYSTEM", "STANDARD", "START", "CUSTOM", "OTHER"}
Standards == {0, 2, 5}
Customs == {0, 1, 4}
OneDays == {DayLen \div 2, DayLen, 2 * DayLen}
StartTimes == {1, 3}
Optional(S) == {<<>>} \cup {<<x>> : x \in S}
VirtualConfigs ==
  [strategy : Strategies, standard : Standards,
   custom : Optional(Customs), oneDay : Optional(OneDays)]

\* the config argument of reload: the keys it carries replace the stored ones
VirtualPatches ==
  [strategy : Optional(Strategies), standard : Optional(Standards),
   custom : Optional(Customs), oneDay : Optional(OneDays)]

\* _.merge(this._config, _.cloneDeep(config))
Merge(vc, patch) ==
  [strategy |-> IF patch.strategy = <<>> THEN vc.strategy ELSE patch.strategy[1],
   standard |-> IF patch.standard = <<>> THEN vc.standard ELSE patch.standard[1],
   custom |-> IF patch.custom = <<>> THEN vc.custom ELSE patch.custom,
   oneDay |-> IF patch.oneDay = <<>> THEN vc.oneDay ELSE patch.oneDay]

\* vc.strategy || Strategy.STANDARD
StrategyOf(vc) == IF vc.strategy = "" THEN "STANDARD" ELSE vc.strategy

\* assert(vc.custom, ...) and throw new Error('INVALID_STRATEGY')
ReloadNeverThrows(vc) == ""
ReloadError(vc) ==
  CASE StrategyOf(vc) \in {"SYSTEM", "STANDARD", "START"} -> ""
    [] StrategyOf(vc) = "CUSTOM" ->
         IF vc.custom = <<>> \/ vc.custom = <<0>> THEN "AssertionError" ELSE ""
    [] OTHER -> "INVALID_STRATEGY"

\* VirtualCalendar.prototype.reload: this._timeRatio, this._virtualBase and
\* this._realBase for the merged virtual configuration vc of a calendar
\* started at st whose _realBase was old
TimeRatioOf(vc) ==
  IF StrategyOf(vc) = "SYSTEM" THEN Num(1)
  ELSE IF vc.oneDay = <<>> THEN NaN ELSE Frac(vc.oneDay[1], OneDayMs)
VirtualBaseOf(vc) ==
  IF StrategyOf(vc) = "SYSTEM" THEN 0 ELSE vc.standard
RealBaseOf(vc, st, old) ==
  CASE StrategyOf(vc) = "SYSTEM" -> 0
    [] StrategyOf(vc) = "STANDARD" -> vc.standard
    [] StrategyOf(vc) = "START" -> st
    [] StrategyOf(vc) = "CUSTOM" /\ ReloadError(vc) = "" -> vc.custom[1]
    [] OTHER -> old

\* time = time || Date.now()
OrNow(time, now) == IF time[1] = 0 THEN Num(now) ELSE time

\* VirtualCalendar.prototype.timestamp
Timestamp(time, now) ==
  Plus(Over(Minus(OrNow(time, now), Num(realBase)), timeRatio), Num(virtualBase))

\* VirtualCalendar.prototype.realStamp
RealStamp(time, now) ==
  Plus(Times(Minus(OrNow(time, now), Num(virtualBase)), timeRatio), Num(realBase))

\* no setTimeout or setTimeoutAt call was made
NoWait == [kind |-> "", arg |-> 0, now |-> 0, delay |-> Num(0)]
NoVirtualConfig == [strategy |-> "SYSTEM", standard |-> 0, custom |-> <<>>, oneDay |-> <<>>]

VIdle ==
  /\ vpc = "idle"
  /\ vConfig = NoVirtualConfig
  /\ vError = ""
  /\ strategy = "SYSTEM"
  /\ startTime = 0
  /\ virtualBase = 0
  /\ realBase = 0
  /\ timeRatio = Num(1)
  /\ vTime = 0
  /\ vVirtual = Num(0)
  /\ vReal = Num(0)
  /\ vWait = NoWait

\* new VirtualCalendar(config): TradeCalendar.call(this, ...) runs
\* this.reload({}); when it throws there is no calendar
VInit ==
  /\ startTime \in StartTimes
  /\ vConfig \in VirtualConfigs
  /\ vError = ReloadError(vConfig)
  /\ vpc = IF vError = "" THEN "ready" ELSE "failed"
  /\ strategy = StrategyOf(vConfig)
  /\ timeRatio = TimeRatioOf(vConfig)
  /\ virtualBase = VirtualBaseOf(vConfig)
  /\ realBase = RealBaseOf(vConfig, startTime, 0)
  /\ vTime = 0
  /\ vVirtual = Num(0)
  /\ vReal = Num(0)
  /\ vWait = NoWait

\* calendar.reload(config): the merge and the assignments up to the assert
\* or throw happen also when the call fails
Reload(patch) ==
  /\ vpc = "ready"
  /\ LET vc == Merge(vConfig, patch)
     IN  /\ vConfig' = vc
         /\ vError' = ReloadError(vc)
         /\ strategy' = StrategyOf(vc)
         /\ timeRatio' = TimeRatioOf(vc)
         /\ virtualBase' = VirtualBaseOf(vc)
         /\ realBase' = RealBaseOf(vc, startTime, realBase)
  /\ UNCHANGED <<vpc, startTime, vTime, vVirtual, vReal, vWait>>

\* calendar.timestamp(t) while Date.now() reads now
CallTimestamp(t, now) ==
  /\ vpc = "ready"
  /\ vTime' = t
  /\ vVirtual' = Timestamp(Num(t), now)
  /\ vpc' = "virtual"
  /\ UNCHANGED <<vConfig, vError, strategy, startTime, virtualBase, realBase, timeRatio, vReal,
                 vWait>>

\* calendar.realStamp(v) for the v that timestamp returned
CallRealStamp(now) ==
  /\ vpc = "virtual"
  /\ vReal' = RealStamp(vVirtual, now)
  /\ vpc' = "real"
  /\ UNCHANGED <<vConfig, vError, strategy, startTime, virtualBase, realBase, timeRatio,
                 vTime, vVirtual, vWait>>

\* TradeCalendar.prototype.now, setTimeout and setTimeoutAt, which a
\* VirtualCalendar inherits: the delay handed to the host's setTimeout
\* (this._setTimeout) for a call made while Date.now() reads now
CalendarNow(now) == now
SetTimeoutDelay(delay) == Num(delay)
SetTimeoutAtDelay(timestamp, now) == SetTimeoutDelay(timestamp - CalendarNow(now))

\* calendar.setTimeout(code, delay)
CallSetTimeout(delay, now) ==
  /\ vpc = "ready"
  /\ vWait' = [kind |-> "setTimeout", arg |-> delay, now |-> now,
               delay |-> SetTimeoutDelay(delay)]
  /\ vpc' = "waiting"
  /\ UNCHANGED <<vConfig, vError, strategy, startTime, virtualBase, realBase, timeRatio,
                 vTime, vVirtual, vReal>>

\* calendar.setTimeoutAt(code, timestamp)
CallSetTimeoutAt(timestamp, now) ==
  /\ vpc = "ready"
  /\ vWait' = [kind |-> "setTimeoutAt", arg |-> timestamp, now |-> now,
               delay |-> SetTimeoutAtDelay(timestamp, now)]
  /\ vpc' = "waiting"
  /\ UNCHANGED <<vConfig, vError, strategy, startTime, virtualBase, realBase, timeRatio,
                 vTime, vVirtual, vReal>>

VNext ==
  \/ \E patch \in VirtualPatches : Reload(patch)
  \/ \E t \in 0 .. MaxReal, now \in 1 .. MaxNow : CallTimestamp(t, now)
  \/ \E now \in 1 .. MaxNow : CallRealStamp(now)
  \/ \E delay \in 1 .. MaxReal, now \in 1 .. MaxNow : CallSetTimeout(delay, now)
  \/ \E t \in 1 .. MaxReal, now \in 1 .. MaxNow : CallSetTimeoutAt(t, now)

\* --------------------------------------------------------- realTimeInfo
NoRealInfo == [tradeDate |-> 0, timePeriods |-> <<>>, dayStart |-> NaN, dayEnd |-> NaN]

\* TradeCalendar.prototype.realStamp:
\* time && time.valueOf && time.valueOf() || time || Date.now()
BaseRealStamp(time, now) == IF time = 0 THEN now ELSE time

\* this.realStamp(time) of the calendar at hand: the base calendar while no
\* virtual calendar was constructed, VirtualCalendar's otherwise
CalendarRealStamp(time, now) ==
  IF vpc = "idle" THEN Num(BaseRealStamp(time, now)) ELSE RealStamp(Num(time), now)

\* realTimePeriod
RealTimePeriod(period, now) ==
  Interval(CalendarRealStamp(period.start, now), CalendarRealStamp(period.end, now))

\* the return of realTimeInfo once its timeInfo call returned, while
\* Date.now() reads now
RealTimeInfoOf(timeInfo, now) ==
  [tradeDate |-> timeInfo.tradeDate,
   timePeriods |-> [i \in 1 .. Len(timeInfo.timePeriods) |->
                      RealTimePeriod(timeInfo.timePeriods[i], now)],
   dayStart |-> CalendarRealStamp(timeInfo.dayStart, now),
   dayEnd |-> CalendarRealStamp(timeInfo.dayEnd, now)]

TIdle == realInfo = NoRealInfo

\* realTimeInfo(date, direction): await this.timeInfo(date, direction) ...
RealTimeInfo(ymd, dir) ==
  /\ TimeInfo(ymd, dir)
  /\ UNCHANGED realInfo

\* ... the rounds of timeInfo's loop, the holiday source answering null or
\* at most one interval ...
RealTimeInfoLoop ==
  /\ SkipWeekend \/ VisitUpTo(1)
  /\ UNCHANGED realInfo

\* ... and the return
RealTimeInfoReturn(now) ==
  /\ pc = "done"
  /\ realInfo = NoRealInfo
  /\ realInfo' = RealTimeInfoOf(result, now)
  /\ UNCHANGED rvars

TNext ==
  \/ \E ymd \in Dates, dir \in Directions : RealTimeInfo(ymd, dir)
  \/ RealTimeInfoLoop
  \/ \E now \in 1 .. MaxNow : RealTimeInfoReturn(now)

\* ------------------------------------------------------ CalendarManager
\* The manager is run with base calendars (TradeCalendar) in one zone.
Names == {"a", "b"}
\* the name of a client that registers one calendar name
OneName == {"a"}
Calendars == {1, 2}

\* the manager is constructed at the midnight of the first modelled Monday
ManagerFirstDay == CHOOSE d \in Day : Days(d) = 1 /\ \A e \in 0 .. (d - 1) : Days(e) # 1
ManagerEnd == ManagerFirstDay * DayLen + MaxClock

\* the holiday source of a manager run: a day is open, closed by a holiday
\* over the whole session, closed for the first tick of the session, or
\* split in two periods by a holiday of no length one tick into the session
SourceKinds == {"open", "closed", "half", "split"}
HolidayDays == {ManagerFirstDay}
Sources ==
  {s \in [Day -> SourceKinds \ {"split"}] : \A d \in Day \ HolidayDays : s[d] = "open"}
SourceAnswer(d) ==
  LET start == Point2Timestamp(d, ConfigStart)
      end == Point2Timestamp(d, ConfigEnd)
  IN  CASE source[d] = "open" -> ListAnswer(<<>>)
        [] source[d] = "closed" -> ListAnswer(<<Interval(start, end)>>)
        [] source[d] = "half" -> ListAnswer(<<Interval(start, start + 1)>>)
        [] source[d] = "split" -> ListAnswer(<<Interval(start + 1, start + 1)>>)

\* timeInfo(date, direction) as a function of the source: the loop of
\* timeInfo from day d; NoTimeInfo when the loop leaves the modelled days
RECURSIVE ResolveFrom(_, _)
ResolveFrom(d, dir) ==
  IF d \notin Day THEN NoTimeInfo
  ELSE IF ~IsWeekday(d) THEN ResolveFrom(d + dir, dir)
  ELSE LET hs == FindHolidays(SourceAnswer(d))
           periods == DayPeriods(<<>>, d, hs)
       IN  IF Len(hs) > 0 /\ Len(periods) = 0
             THEN ResolveFrom(d + dir, dir)
             ELSE [tradeDate |-> FormatYMD(d),
                   timePeriods |-> periods,
                   dayStart |-> StartOfDay(d),
                   dayEnd |-> EndOfDay(d)]

\* TradeCalendar.prototype.timestamp:
\* time && time.valueOf && time.valueOf() || time || Date.now()
BaseTimestamp(time, now) == IF time = 0 THEN now ELSE time

\* TradeCalendar.prototype.today, as a day number
Today(now) == (BaseTimestamp(0, now) + timezoneName) \div DayLen

\* realTimeInfo of a base calendar for the TimeInfo timeInfo returned
BaseRealTimeInfo(timeInfo, now) ==
  [tradeDate |-> timeInfo.tradeDate,
   timePeriods |-> [i \in 1 .. Len(timeInfo.timePeriods) |->
                      Interval(BaseRealStamp(timeInfo.timePeriods[i].start, now),
                               BaseRealStamp(timeInfo.timePeriods[i].end, now))],
   dayStart |-> BaseRealStamp(timeInfo.dayStart, now),
   dayEnd |-> BaseRealStamp(timeInfo.dayEnd, now)]

\* TradeCalendar.prototype.point2timestamp, afterMarketEnd, realAfterMarketEnd
CalendarPoint2Timestamp(ymd, point) == ParseTz(ParseYMD(ymd) * DayLen + point)
AfterMarketEndAtOpen(ymd) == CalendarPoint2Timestamp(ymd, ConfigStart)
AfterMarketEnd(ymd) == CalendarPoint2Timestamp(ymd, ConfigAfterEnd)
RealAfterMarketEnd(ymd, now) == BaseRealStamp(AfterMarketEnd(ymd), now)

\* the fields of a calendar the manager reads and writes, after construction;
\* a handler is the id of a timer, 0 while it is undefined or null, and
\* systemPeriod is <<>> while it is undefined
NewCalendar ==
  [tradeDate |-> 0, preTradeDate |-> 0, nextTradeDate |-> 0,
   dayStart |-> 0, dayEnd |-> 0,
   systemPeriods |-> <<>>, systemPeriod |-> <<>>,
   timeInfoHandler |-> 0, startTimeHandler |-> 0, endTimeHandler |-> 0,
   marketOpenTimeHandler |-> 0, marketCloseTimeHandler |-> 0, timeHandler |-> 0]

Handlers == {"timeInfoHandler", "startTimeHandler", "endTimeHandler",
             "marketOpenTimeHandler", "marketCloseTimeHandler", "timeHandler"}

\* The handlers below are written as functions of the machine m, the record
\* of the calendars' fields, the pending timers and the events the running
\* step has emitted.
Machine == [cal |-> cal, timers |-> timers, events |-> <<>>]

\* setTimeout's return: a timer id no pending timer and no handler holds
UsedIds(m) ==
  {t.id : t \in m.timers} \cup {m.cal[c][h] : c \in Calendars, h \in Handlers}
FreshId(m) ==
  CHOOSE i \in 1 .. (Cardinality(UsedIds(m)) + 1) :
    /\ i \notin UsedIds(m)
    /\ \A j \in 1 .. (i - 1) : j \in UsedIds(m)

\* the host's timer list: the place of a new timer, after every pending one
LastPlace(m) ==
  IF m.timers = {} THEN 1
  ELSE 1 + (CHOOSE n \in {t.place : t \in m.timers} : \A t \in m.timers : t.place <= n)

\* setTimeout(callback, delay): a timer of some kind for calendar c, due
\* when the delay has passed; a negative delay is clamped by the host, and
\* the timer is then due at once, before every timer armed after it; time
\* is the instant a realTimeoutAt waits for, anchor the date a retry carries
Timer(m, kind, name, c, now, delay, time, anchor) ==
  [id |-> FreshId(m), place |-> LastPlace(m), kind |-> kind, name |-> name, cal |-> c,
   due |-> IF delay > 0 THEN now + delay ELSE now, clamped |-> delay < 0,
   time |-> time, anchor |-> anchor]

\* calendar[handler] = setTimeout(...)
SetTimeout(m, handler, t) ==
  [m EXCEPT !.timers = @ \cup {t}, !.cal[t.cal][handler] = t.id]

\* if (calendar[handler]) clearTimeout(calendar[handler])
ClearTimeout(m, c, handler) ==
  [m EXCEPT !.timers = {t \in @ : t.id # m.cal[c][handler]}]

\* this.emit(type, calendar, ...), with the reading of Date.now() at which
\* it happens
Event(type, c, tradeDate, period) ==
  [type |-> type, cal |-> c, tradeDate |-> tradeDate, period |-> period,
   preTradeDate |-> 0, nextTradeDate |-> 0, queue |-> <<>>, at |-> clock]
Emit(m, event) == [m EXCEPT !.events = Append(@, event)]

\* the date itself, whatever the number of days
AddDaysNone(ymd, n) == ymd

\* moment(tradeDate.toString()).add(n, 'days').format('YYYYMMDD')
AddDays(ymd, n) == FormatYMD(ParseYMD(ymd) + n)

\* changeSystemPeriod taking the latest queued period and not the earliest
ChangeSystemPeriodPops(m, name, c, now) ==
  IF Len(m.cal[c].systemPeriods) = 0 THEN m
  ELSE
    LET n == Len(m.cal[c].systemPeriods)
        period == m.cal[c].systemPeriods[n]
        m1 == [m EXCEPT !.cal[c].systemPeriod = <<period>>,
                        !.cal[c].systemPeriods = SubSeq(@, 1, n - 1)]
        m2 == Emit(m1, [Event("system-period-change", c, m1.cal[c].tradeDate, <<period>>)
                          EXCEPT !.queue = m1.cal[c].systemPeriods])
        m3 == ClearTimeout(ClearTimeout(m2, c, "startTimeHandler"), c, "endTimeHandler")
        m4 == SetTimeout(m3, "startTimeHandler",
                Timer(m3, "start", name, c, now, period.start - now, period.start, 0))
    IN  SetTimeout(m4, "endTimeHandler",
          Timer(m4, "end", name, c, now, period.end - now, period.end, 0))

\* changeSystemPeriod(name, calendar) while Date.now() reads now
ChangeSystemPeriod(m, name, c, now) ==
  IF Len(m.cal[c].systemPeriods) = 0 THEN m
  ELSE
    LET period == Head(m.cal[c].systemPeriods)
        m1 == [m EXCEPT !.cal[c].systemPeriod = <<period>>,
                        !.cal[c].systemPeriods = Tail(@)]
        m2 == Emit(m1, [Event("system-period-change", c, m1.cal[c].tradeDate, <<period>>)
                          EXCEPT !.queue = m1.cal[c].systemPeriods])
        m3 == ClearTimeout(ClearTimeout(m2, c, "startTimeHandler"), c, "endTimeHandler")
        m4 == SetTimeout(m3, "startTimeHandler",
                Timer(m3, "start", name, c, now, period.start - now, period.start, 0))
    IN  SetTimeout(m4, "endTimeHandler",
          Timer(m4, "end", name, c, now, period.end - now, period.end, 0))

\* setTimeInfo(name, start, retry) up to its first await: the call as it is
\* suspended in realTimeInfo(start), which read today() when start is 0;
\* origin is who receives what the call throws
BeginPass(name, c, start, retry, origin, now) ==
  [name |-> name, cal |-> c, start |-> start, retry |-> retry, origin |-> origin,
   at |-> now, anchor |-> IF start = 0 THEN Today(now) ELSE ParseYMD(start),
   stage |-> "info", info |-> NoTimeInfo]

\* the end of the try block without the clearTimeout of _timeInfoHandler
FinishPassKeepsTimer(m, p, timeInfo, now) ==
  LET c == p.cal
      m1 == [m EXCEPT !.cal[c].systemPeriods = timeInfo.timePeriods]
      m3 == ChangeSystemPeriod(m1, p.name, c, now)
      n == Len(timeInfo.timePeriods)
      marketOpen == IF n = 0 THEN 0 ELSE timeInfo.timePeriods[1].start
      marketClose == IF n = 0 THEN 0 ELSE timeInfo.timePeriods[n].end
      m4 == IF marketOpen # 0 /\ marketClose # 0 /\ p.at < marketClose
              THEN SetTimeout(m3, "marketOpenTimeHandler",
                     Timer(m3, "open", p.name, c, now,
                           BaseTimestamp(marketOpen, now) - now, 0, 0))
              ELSE m3
      m5 == IF marketOpen # 0 /\ marketClose # 0
              THEN SetTimeout(m4, "marketCloseTimeHandler",
                     Timer(m4, "close", p.name, c, now,
                           BaseTimestamp(marketClose, now) - now, 0, 0))
              ELSE m4
  IN  SetTimeout(m5, "timeInfoHandler",
        Timer(m5, "terminal", p.name, c, now,
              AfterMarketEnd(timeInfo.tradeDate) - now, 0, 0))

\* setTimeInfo from calendar.systemPeriods = timeInfo.timePeriods to the end
\* of the try block, for the pass p that resolved timeInfo
FinishPass(m, p, timeInfo, now) ==
  LET c == p.cal
      m1 == [m EXCEPT !.cal[c].systemPeriods = timeInfo.timePeriods]
      m2 == ChangeSystemPeriod(m1, p.name, c, now)
      m3 == ClearTimeout(m2, c, "timeInfoHandler")
      n == Len(timeInfo.timePeriods)
      marketOpen == IF n = 0 THEN 0 ELSE timeInfo.timePeriods[1].start
      marketClose == IF n = 0 THEN 0 ELSE timeInfo.timePeriods[n].end
      m4 == IF marketOpen # 0 /\ marketClose # 0 /\ p.at < marketClose
              THEN SetTimeout(m3, "marketOpenTimeHandler",
                     Timer(m3, "open", p.name, c, now,
                           BaseTimestamp(marketOpen, now) - now, 0, 0))
              ELSE m3
      m5 == IF marketOpen # 0 /\ marketClose # 0
              THEN SetTimeout(m4, "marketCloseTimeHandler",
                     Timer(m4, "close", p.name, c, now,
                           BaseTimestamp(marketClose, now) - now, 0, 0))
              ELSE m4
  IN  SetTimeout(m5, "timeInfoHandler",
        Timer(m5, "terminal", p.name, c, now,
              AfterMarketEnd(timeInfo.tradeDate) - now, 0, 0))

\* the sequence s without its i-th element, and with x in its place
Without(s, i) == [j \in 1 .. (Len(s) - 1) |-> IF j < i THEN s[j] ELSE s[j + 1]]
Replaced(s, i, x) == [s EXCEPT ![i] = x]

\* the machine after a step
Becomes(m) ==
  /\ cal' = m.cal
  /\ timers' = m.timers
  /\ events' = m.events
  /\ emitted' = emitted \cup {events[i] : i \in DOMAIN events}

MIdle ==
  /\ clock = 0
  /\ source = [d \in Day |-> "open"]
  /\ calendars = [n \in Names |-> 0]
  /\ cal = [c \in Calendars |-> NewCalendar]
  /\ timers = {}
  /\ passes = <<>>
  /\ events = <<>>
  /\ emitted = {}
  /\ rejected = <<>>
  /\ unhandled = <<>>
  /\ stopped = [c \in Calendars |-> FALSE]
  /\ starts = 0
  /\ stops = 0
  /\ failures = 0
  /\ sleeps = 0
  /\ earlies = 0

\* new CalendarManager(), with calendars that were constructed and never
\* started
MInitWith(sources) ==
  /\ clock = ManagerFirstDay * DayLen
  /\ source \in sources
  /\ calendars = [n \in Names |-> 0]
  /\ cal = [c \in Calendars |-> NewCalendar]
  /\ timers = {}
  /\ passes = <<>>
  /\ events = <<>>
  /\ emitted = {}
  /\ rejected = <<>>
  /\ unhandled = <<>>
  /\ stopped = [c \in Calendars |-> FALSE]
  /\ starts = 0
  /\ stops = 0
  /\ failures = 0
  /\ sleeps = 0
  /\ earlies = 0

\* start(name, calendar) without the test of this.calendars[name]
StartOverwrites(name, c) ==
  /\ starts < MaxStarts
  /\ starts' = starts + 1
  /\ calendars' = [calendars EXCEPT ![name] = c]
  /\ passes' = Append(passes, BeginPass(name, c, 0, FALSE, "start", clock))
  /\ stopped' = [stopped EXCEPT ![c] = FALSE]
  /\ Becomes(Machine)
  /\ UNCHANGED <<clock, source, rejected, unhandled, stops, failures, sleeps, earlies>>

\* start(name, calendar)
Start(name, c) ==
  /\ starts < MaxStarts
  /\ starts' = starts + 1
  /\ IF calendars[name] # 0 /\ calendars[name] # c
       THEN /\ rejected' = Append(rejected, [name |-> name, code |-> "REPEAT_NAME"])
            /\ UNCHANGED <<calendars, passes, stopped>>
       ELSE /\ calendars' = [calendars EXCEPT ![name] = c]
            /\ passes' = Append(passes, BeginPass(name, c, 0, FALSE, "start", clock))
            /\ stopped' = [stopped EXCEPT ![c] = FALSE]
            /\ UNCHANGED rejected
  /\ Becomes(Machine)
  /\ UNCHANGED <<clock, source, unhandled, stops, failures, sleeps, earlies>>

\* start(name): calendar is this.calendars[name], and setTimeInfo throws a
\* TypeError on calendar.currentTime() when there is none
StartByName(name) ==
  /\ starts < MaxStarts
  /\ starts' = starts + 1
  /\ IF calendars[name] = 0
       THEN /\ rejected' = Append(rejected, [name |-> name, code |-> "TypeError"])
            /\ UNCHANGED <<passes, stopped>>
       ELSE /\ passes' = Append(passes,
                           BeginPass(name, calendars[name], 0, FALSE, "start", clock))
            /\ stopped' = [stopped EXCEPT ![calendars[name]] = FALSE]
            /\ UNCHANGED rejected
  /\ Becomes(Machine)
  /\ UNCHANGED <<clock, source, calendars, unhandled, stops, failures, sleeps, earlies>>

\* the body of stop(name)
StopCalendar(m, name) ==
  IF calendars[name] = 0 THEN m
  ELSE ClearTimeout(ClearTimeout(ClearTimeout(m,
         calendars[name], "timeInfoHandler"),
         calendars[name], "startTimeHandler"),
         calendars[name], "endTimeHandler")

\* Object.keys(this.calendars).forEach(name => this.stop(name))
RECURSIVE StopEach(_, _)
StopEach(m, names) ==
  IF names = {} THEN m
  ELSE LET name == CHOOSE n \in names : TRUE
       IN  StopEach(StopCalendar(m, name), names \ {name})

\* stop(name)
Stop(name) ==
  /\ stops < MaxStops
  /\ stops' = stops + 1
  /\ Becomes(StopCalendar(Machine, name))
  /\ stopped' = [c \in Calendars |-> stopped[c] \/ (c # 0 /\ calendars[name] = c)]
  /\ UNCHANGED <<clock, source, calendars, passes, rejected, unhandled, starts, failures, sleeps,
                 earlies>>

\* stopAll()
StopAll ==
  /\ stops < MaxStops
  /\ stops' = stops + 1
  /\ Becomes(StopEach(Machine, Names))
  /\ stopped' = [c \in Calendars |-> stopped[c] \/ (\E n \in Names : calendars[n] = c)]
  /\ UNCHANGED <<clock, source, calendars, passes, rejected, unhandled, starts, failures, sleeps,
                 earlies>>

\* the answer to realTimeInfo(start) without the test of now against
\* afterMarketClose
ResumeInfoNoCatchUp(i) ==
  /\ passes[i].stage = "info"
  /\ LET p == passes[i]
         c == p.cal
         found == ResolveFrom(p.anchor, 1)
         timeInfo == BaseRealTimeInfo(found, clock)
     IN  /\ found # NoTimeInfo
         /\ IF cal[c].tradeDate # timeInfo.tradeDate
                THEN IF cal[c].tradeDate > 0
                  THEN /\ Becomes([Machine EXCEPT !.cal[c].preTradeDate = cal[c].tradeDate])
                       /\ passes' = Replaced(passes, i,
                                      [p EXCEPT !.stage = "next", !.info = timeInfo])
                  ELSE /\ passes' = Replaced(passes, i,
                                      [p EXCEPT !.stage = "prev", !.info = timeInfo])
                       /\ Becomes(Machine)
                ELSE /\ Becomes(FinishPass(Machine, p, timeInfo, clock))
                     /\ passes' = Without(passes, i)
  /\ UNCHANGED <<clock, source, calendars, rejected, unhandled, stopped, starts, stops,
                 failures, sleeps,
                 earlies>>

\* the holiday source answers pass i, suspended in realTimeInfo(start): the
\* catch-up call, the branch on calendar.tradeDate, or the rest of the pass
ResumeInfo(i) ==
  /\ passes[i].stage = "info"
  /\ LET p == passes[i]
         c == p.cal
         found == ResolveFrom(p.anchor, 1)
         timeInfo == BaseRealTimeInfo(found, clock)
     IN  /\ found # NoTimeInfo
         /\ IF p.at > RealAfterMarketEnd(timeInfo.tradeDate, clock)
              THEN /\ passes' = Replaced(passes, i,
                                  BeginPass(p.name, calendars[p.name],
                                            AddDays(timeInfo.tradeDate, 1),
                                            p.retry, p.origin, clock))
                   /\ Becomes(Machine)
              ELSE IF cal[c].tradeDate # timeInfo.tradeDate
                THEN IF cal[c].tradeDate > 0
                  THEN /\ Becomes([Machine EXCEPT !.cal[c].preTradeDate = cal[c].tradeDate])
                       /\ passes' = Replaced(passes, i,
                                      [p EXCEPT !.stage = "next", !.info = timeInfo])
                  ELSE /\ passes' = Replaced(passes, i,
                                      [p EXCEPT !.stage = "prev", !.info = timeInfo])
                       /\ Becomes(Machine)
                ELSE /\ Becomes(FinishPass(Machine, p, timeInfo, clock))
                     /\ passes' = Without(passes, i)
  /\ UNCHANGED <<clock, source, calendars, rejected, unhandled, stopped, starts, stops,
                 failures, sleeps,
                 earlies>>

\* the backward search begun at the resolved day itself
ResumePrevFromSameDay(i) ==
  /\ passes[i].stage = "prev"
  /\ LET p == passes[i]
         found == ResolveFrom(ParseYMD(p.info.tradeDate), -1)
     IN  /\ found # NoTimeInfo
         /\ Becomes([Machine EXCEPT !.cal[p.cal].preTradeDate = found.tradeDate])
         /\ passes' = Replaced(passes, i, [p EXCEPT !.stage = "next"])
  /\ UNCHANGED <<clock, source, calendars, rejected, unhandled, stopped,
                 starts, stops, failures, sleeps, earlies>>

\* the holiday source answers pass i, suspended in
\* realTimeInfo(the day before, -1)
ResumePrev(i) ==
  /\ passes[i].stage = "prev"
  /\ LET p == passes[i]
         found == ResolveFrom(ParseYMD(p.info.tradeDate) - 1, -1)
     IN  /\ found # NoTimeInfo
         /\ Becomes([Machine EXCEPT !.cal[p.cal].preTradeDate = found.tradeDate])
         /\ passes' = Replaced(passes, i, [p EXCEPT !.stage = "next"])
  /\ UNCHANGED <<clock, source, calendars, rejected, unhandled, stopped,
                 starts, stops, failures, sleeps, earlies>>

\* the holiday source answers pass i, suspended in getTimeInfo(the day
\* after, 1): trade-date-change and the rest of the pass
ResumeNext(i) ==
  /\ passes[i].stage = "next"
  /\ LET p == passes[i]
         c == p.cal
         found == ResolveFrom(ParseYMD(p.info.tradeDate) + 1, 1)
         m1 == [Machine EXCEPT !.cal[c].nextTradeDate = found.tradeDate,
                               !.cal[c].tradeDate = p.info.tradeDate,
                               !.cal[c].dayStart = p.info.dayStart,
                               !.cal[c].dayEnd = p.info.dayEnd]
         m2 == Emit(m1, [Event("trade-date-change", c, p.info.tradeDate, <<>>)
                           EXCEPT !.preTradeDate = m1.cal[c].preTradeDate,
                                  !.nextTradeDate = m1.cal[c].nextTradeDate])
     IN  /\ found # NoTimeInfo
         /\ Becomes(FinishPass(m2, p, p.info, clock))
         /\ passes' = Without(passes, i)
  /\ UNCHANGED <<clock, source, calendars, rejected, unhandled, stopped, starts, stops,
                 failures, sleeps,
                 earlies>>

\* the catch block with its retry branch taken for every pass
FailRetries(i) ==
  /\ failures < MaxFailures
  /\ failures' = failures + 1
  /\ LET p == passes[i]
         c == p.cal
         m1 == [ClearTimeout(Machine, c, "timeInfoHandler")
                  EXCEPT !.cal[c].timeInfoHandler = 0]
     IN  Becomes(SetTimeout(m1, "timeHandler",
                   Timer(m1, "retry", p.name, c, clock, RetryDelay, 0, p.start)))
  /\ passes' = Without(passes, i)
  /\ UNCHANGED <<clock, source, calendars, rejected, unhandled, stopped, starts, stops,
                 sleeps, earlies>>

\* the holiday source fails while pass i is suspended: the catch block
Fail(i) ==
  /\ failures < MaxFailures
  /\ failures' = failures + 1
  /\ LET p == passes[i]
         c == p.cal
         m1 == [ClearTimeout(Machine, c, "timeInfoHandler")
                  EXCEPT !.cal[c].timeInfoHandler = 0]
     IN  IF p.retry
           THEN /\ Becomes(SetTimeout(m1, "timeHandler",
                             Timer(m1, "retry", p.name, c, clock, RetryDelay, 0, p.start)))
                /\ UNCHANGED <<rejected, unhandled>>
           ELSE /\ Becomes(Machine)
                /\ IF p.origin = "start"
                     THEN /\ rejected' = Append(rejected,
                                            [name |-> p.name, code |-> "HolidayError"])
                          /\ UNCHANGED unhandled
                     ELSE /\ unhandled' = Append(unhandled,
                                             [name |-> p.name, code |-> "HolidayError"])
                          /\ UNCHANGED rejected
  /\ passes' = Without(passes, i)
  /\ UNCHANGED <<clock, source, calendars, stopped, starts, stops, sleeps, earlies>>

\* a timer that fired before time and is not armed again
RearmDropped(m, t, now) == m

\* realTimeoutAt(listener, time) called again by a timer that fired before
\* time: the new timer's id is dropped
Rearm(m, t, now) ==
  [m EXCEPT !.timers = @ \cup {Timer(m, t.kind, t.name, t.cal, now, t.time - now, t.time, 0)}]

\* the host runs the callback of timer t: timers run in the order they are
\* due, and the host may run a timer armed by realTimeoutAt Jitter ticks
\* before Date.now() reaches its instant
Fire(t) ==
  /\ \/ clock >= t.due
     \/ /\ t.kind \in {"start", "end"}
        /\ clock >= t.due - Jitter
        /\ earlies < MaxEarly
  /\ earlies' = IF clock >= t.due THEN earlies ELSE earlies + 1
  /\ \A u \in timers : u.due >= t.due
  /\ \A u \in timers : ~(u.clamped /\ u.place < t.place /\ u.due = t.due)
  /\ LET c == t.cal
         m0 == [Machine EXCEPT !.timers = @ \ {t}]
     IN  CASE t.kind = "terminal" ->
                /\ Becomes(Emit(m0, Event("after-market-close", c, cal[c].tradeDate, <<>>)))
                /\ passes' = Append(passes,
                                BeginPass(t.name, calendars[t.name],
                                          AddDays(cal[c].tradeDate, 1), FALSE, "timer", clock))
           [] t.kind = "open" ->
                /\ Becomes(Emit(m0, Event("market-open", c, cal[c].tradeDate, <<>>)))
                /\ UNCHANGED passes
           [] t.kind = "close" ->
                /\ Becomes(Emit(m0, Event("market-close", c, cal[c].tradeDate, <<>>)))
                /\ UNCHANGED passes
           [] t.kind = "start" ->
                /\ IF clock >= t.time
                     THEN Becomes(Emit(m0, Event("system-time-start", c,
                                                 cal[c].tradeDate, cal[c].systemPeriod)))
                     ELSE Becomes(Rearm(m0, t, clock))
                /\ UNCHANGED passes
           [] t.kind = "end" ->
                /\ IF clock >= t.time
                     THEN Becomes(ChangeSystemPeriod(
                            Emit(m0, Event("system-time-end", c,
                                           cal[c].tradeDate, cal[c].systemPeriod)),
                            t.name, c, clock))
                     ELSE Becomes(Rearm(m0, t, clock))
                /\ UNCHANGED passes
           [] t.kind = "retry" ->
                /\ Becomes(m0)
                /\ passes' = Append(passes,
                                BeginPass(t.name, calendars[t.name], t.anchor,
                                          TRUE, "timer", clock))
  /\ UNCHANGED <<clock, source, calendars, rejected, unhandled, stopped, starts, stops,
                 failures, sleeps>>

\* a timer is due at this instant
Due == \E t \in timers : t.due <= clock

\* time passes once the host has run what was due; the holiday source
\* answers, or fails, within the tick it was asked in
Tick ==
  /\ passes = <<>>
  /\ ~Due
  /\ clock < ManagerEnd
  /\ clock' = clock + 1
  /\ Becomes(Machine)
  /\ UNCHANGED <<source, calendars, passes, rejected, unhandled,
                 stopped, starts, stops, failures, sleeps, earlies>>

\* the host is late: the process is suspended while timers are due
Sleep(ticks) ==
  /\ passes = <<>>
  /\ Due
  /\ sleeps < MaxSleeps
  /\ sleeps' = sleeps + 1
  /\ clock + ticks <= ManagerEnd
  /\ clock' = clock + ticks
  /\ Becomes(Machine)
  /\ UNCHANGED <<source, calendars, passes, rejected, unhandled,
                 stopped, starts, stops, failures, earlies>>

MNext ==
  \/ \E name \in OneName, c \in Calendars : Start(name, c)
  \/ \E name \in OneName : StartByName(name)
  \/ \E name \in OneName : Stop(name)
  \/ StopAll
  \/ \E i \in 1 .. Len(passes) : ResumeInfo(i)
  \/ \E i \in 1 .. Len(passes) : ResumePrev(i)
  \/ \E i \in 1 .. Len(passes) : ResumeNext(i)
  \/ \E i \in 1 .. Len(passes) : Fail(i)
  \/ \E t \in timers : Fire(t)
  \/ Tick
  \/ \E ticks \in 1 .. MaxClock : Sleep(ticks)

\* the host is late, whatever the length of the run
Oversleep(ticks) ==
  /\ passes = <<>>
  /\ Due
  /\ sleeps < MaxSleeps
  /\ sleeps' = sleeps + 1
  /\ clock' = clock + ticks
  /\ Becomes(Machine)
  /\ UNCHANGED <<source, calendars, passes, rejected, unhandled,
                 stopped, starts, stops, failures, earlies>>

\* the manager on a host that oversleeps, a holiday source that always
\* answers, and a client that never calls stop
LNext ==
  \/ \E name \in OneName, c \in Calendars : Start(name, c)
  \/ \E name \in OneName : StartByName(name)
  \/ \E i \in 1 .. Len(passes) : ResumeInfo(i)
  \/ \E i \in 1 .. Len(passes) : ResumePrev(i)
  \/ \E i \in 1 .. Len(passes) : ResumeNext(i)
  \/ \E t \in timers : Fire(t)
  \/ Tick
  \/ \E ticks \in 1 .. (2 * DayLen) : Oversleep(ticks)

\* the errors thrown by listeners so far: EventEmitter.emit calls the
\* listeners in the caller's stack, and what a listener throws is thrown by
\* emit
MaxThrows == 1
ListenerError(name) == [name |-> name, code |-> "ListenerError"]
ListenerErrors ==
  Cardinality({i \in DOMAIN rejected : rejected[i].code = "ListenerError"})
    + Cardinality({i \in DOMAIN unhandled : unhandled[i].code = "ListenerError"})

\* the holiday source answers pass i, suspended in getTimeInfo(the day
\* after, 1), and a listener of trade-date-change throws: the stores before
\* the emit are done, and the catch block runs
ThrowInPass(i) ==
  /\ ListenerErrors < MaxThrows
  /\ passes[i].stage = "next"
  /\ LET p == passes[i]
         c == p.cal
         found == ResolveFrom(ParseYMD(p.info.tradeDate) + 1, 1)
         m1 == [Machine EXCEPT !.cal[c].nextTradeDate = found.tradeDate,
                               !.cal[c].tradeDate = p.info.tradeDate,
                               !.cal[c].dayStart = p.info.dayStart,
                               !.cal[c].dayEnd = p.info.dayEnd]
         m2 == Emit(m1, [Event("trade-date-change", c, p.info.tradeDate, <<>>)
                           EXCEPT !.preTradeDate = m1.cal[c].preTradeDate,
                                  !.nextTradeDate = m1.cal[c].nextTradeDate])
         m3 == [ClearTimeout(m2, c, "timeInfoHandler")
                  EXCEPT !.cal[c].timeInfoHandler = 0]
     IN  /\ found # NoTimeInfo
         /\ IF p.retry
              THEN /\ Becomes(SetTimeout(m3, "timeHandler",
                                Timer(m3, "retry", p.name, c, clock, RetryDelay, 0, p.start)))
                   /\ UNCHANGED <<rejected, unhandled>>
              ELSE /\ Becomes(m2)
                   /\ IF p.origin = "start"
                        THEN /\ rejected' = Append(rejected, ListenerError(p.name))
                             /\ UNCHANGED unhandled
                        ELSE /\ unhandled' = Append(unhandled, ListenerError(p.name))
                             /\ UNCHANGED rejected
  /\ passes' = Without(passes, i)
  /\ UNCHANGED <<clock, source, calendars, stopped, starts, stops, failures, sleeps,
                 earlies>>

\* the host runs the callback of timer t at or after its instant, and a
\* listener of the event it emits throws: the rest of the callback is not
\* run
ThrowInTimer(t) ==
  /\ ListenerErrors < MaxThrows
  /\ t.kind \in {"terminal", "open", "close", "start", "end"}
  /\ clock >= t.due
  /\ \A u \in timers : u.due >= t.due
  /\ \A u \in timers : ~(u.clamped /\ u.place < t.place /\ u.due = t.due)
  /\ LET c == t.cal
         m0 == [Machine EXCEPT !.timers = @ \ {t}]
         type == CASE t.kind = "terminal" -> "after-market-close"
                   [] t.kind = "open" -> "market-open"
                   [] t.kind = "close" -> "market-close"
                   [] t.kind = "start" -> "system-time-start"
                   [] t.kind = "end" -> "system-time-end"
         period == IF t.kind \in {"start", "end"} THEN cal[c].systemPeriod ELSE <<>>
     IN  Becomes(Emit(m0, Event(type, c, cal[c].tradeDate, period)))
  /\ unhandled' = Append(unhandled, ListenerError(t.name))
  /\ UNCHANGED <<clock, source, calendars, passes, rejected, stopped, starts, stops,
                 failures, sleeps, earlies>>

\* the manager with listeners that throw, a holiday source that always
\* answers and a client that never calls stop
ENext ==
  \/ \E name \in OneName, c \in Calendars : Start(name, c)
  \/ \E i \in 1 .. Len(passes) : ResumeInfo(i)
  \/ \E i \in 1 .. Len(passes) : ResumePrev(i)
  \/ \E i \in 1 .. Len(passes) : ResumeNext(i)
  \/ \E i \in 1 .. Len(passes) : ThrowInPass(i)
  \/ \E t \in timers : Fire(t)
  \/ \E t \in timers : ThrowInTimer(t)
  \/ Tick

\* the manager on a day of two periods, with a holiday source that always
\* answers and a client that never calls stop
PNext ==
  \/ \E name \in OneName, c \in Calendars : Start(name, c)
  \/ \E i \in 1 .. Len(passes) : ResumeInfo(i)
  \/ \E i \in 1 .. Len(passes) : ResumePrev(i)
  \/ \E i \in 1 .. Len(passes) : ResumeNext(i)
  \/ \E t \in timers : Fire(t)
  \/ Tick
  \/ \E ticks \in 1 .. MaxClock : Sleep(ticks)

\* time passes, for two days more than in the other runs of the manager
ForeverEnd == ManagerEnd + 2 * DayLen
ForeverTick ==
  /\ passes = <<>>
  /\ ~Due
  /\ clock < ForeverEnd
  /\ clock' = clock + 1
  /\ Becomes(Machine)
  /\ UNCHANGED <<source, calendars, passes, rejected, unhandled,
                 stopped, starts, stops, failures, sleeps, earlies>>

\* the holiday source answers a suspended call
Answers ==
  \E i \in 1 .. Len(passes) : ResumeInfo(i) \/ ResumePrev(i) \/ ResumeNext(i)

\* a suspended call that the holiday source can answer: the condition under
\* which Answers can take a step
Answerable ==
  \E i \in 1 .. Len(passes) :
    \/ passes[i].stage = "info" /\ ResolveFrom(passes[i].anchor, 1) # NoTimeInfo
    \/ /\ passes[i].stage = "prev"
       /\ ResolveFrom(ParseYMD(passes[i].info.tradeDate) - 1, -1) # NoTimeInfo
    \/ /\ passes[i].stage = "next"
       /\ ResolveFrom(ParseYMD(passes[i].info.tradeDate) + 1, 1) # NoTimeInfo

\* the manager over several days, with a holiday source that always answers
\* and a client that never calls stop
FNext ==
  \/ \E name \in OneName, c \in Calendars : Start(name, c)
  \/ Answers
  \/ \E t \in timers : Fire(t)
  \/ ForeverTick

\* the manager with a client that registers two names, on a host that is
\* never late
NNext ==
  \/ \E name \in Names, c \in Calendars : Start(name, c)
  \/ \E name \in Names : Stop(name)
  \/ \E i \in 1 .. Len(passes) : ResumeInfo(i)
  \/ \E i \in 1 .. Len(passes) : ResumePrev(i)
  \/ \E i \in 1 .. Len(passes) : ResumeNext(i)
  \/ \E i \in 1 .. Len(passes) : Fail(i)
  \/ \E t \in timers : Fire(t)
  \/ Tick

\* --------------------------------------------------------- specifications
vars == <<rvars, hvars, vvars, tvars, mvars>>

\* the resolver
Init == RInit /\ HIdle /\ VIdle /\ TIdle /\ MIdle
Next == RNext /\ UNCHANGED <<hvars, vvars, tvars, mvars>>
Spec == Init /\ [][Next]_vars

\* holiday normalisation
InitHolidays == HInit /\ RInit /\ timezoneName = 0 /\ VIdle /\ TIdle /\ MIdle
NextHolidays == HNext /\ UNCHANGED <<rvars, vvars, tvars, mvars>>
SpecHolidays == InitHolidays /\ [][NextHolidays]_vars

\* the virtual transform
InitVirtual == VInit /\ RInit /\ timezoneName = 0 /\ HIdle /\ TIdle /\ MIdle
NextVirtual == VNext /\ UNCHANGED <<rvars, hvars, tvars, mvars>>
SpecVirtual == InitVirtual /\ [][NextVirtual]_vars

\* realTimeInfo of the base calendar and of a virtual calendar started at
\* the first of StartTimes whose standard is 2 and whose custom, if any, is 4
InitRealTimeInfo ==
  /\ RInit /\ HIdle /\ TIdle /\ MIdle
  /\ \/ VIdle
     \/ /\ VInit /\ vpc = "ready" /\ startTime = 1
        /\ vConfig.standard = 2 /\ vConfig.custom \in {<<>>, <<4>>}
NextRealTimeInfo == TNext /\ UNCHANGED <<hvars, vvars, mvars>>
SpecRealTimeInfo == InitRealTimeInfo /\ [][NextRealTimeInfo]_vars

\* the manager, with base calendars of zone 0 in a process of zone 0
InitManager == MInitWith(Sources) /\ RInit /\ timezoneName = 0 /\ HIdle /\ VIdle /\ TIdle
NextManager == MNext /\ UNCHANGED <<rvars, hvars, vvars, tvars>>
SpecManager == InitManager /\ [][NextManager]_vars

\* the manager with two names
NextNames == NNext /\ UNCHANGED <<rvars, hvars, vvars, tvars>>
SpecNames == InitManager /\ [][NextNames]_vars

\* the manager with listeners that throw
NextListeners == ENext /\ UNCHANGED <<rvars, hvars, vvars, tvars>>
SpecListeners == InitManager /\ [][NextListeners]_vars

\* the manager on a day of two periods
InitPeriods ==
  /\ MInitWith({s \in [Day -> {"open", "split"}] :
                  \A d \in Day : s[d] = "split" <=> d \in HolidayDays})
  /\ RInit /\ timezoneName = 0 /\ HIdle /\ VIdle /\ TIdle
NextPeriods == PNext /\ UNCHANGED <<rvars, hvars, vvars, tvars>>
SpecPeriods == InitPeriods /\ [][NextPeriods]_vars

\* the manager over several days: the holiday source answers every call
\* (weak fairness of Answers, written with its enabling condition), the
\* host runs every timer that is due, and time passes
NextForever == FNext /\ UNCHANGED <<rvars, hvars, vvars, tvars>>
SpecForever ==
  /\ InitManager
  /\ [][NextForever]_vars
  /\ \/ []<>(~Answerable)
     \/ []<><<Answers /\ UNCHANGED <<rvars, hvars, vvars, tvars>>>>_vars
  /\ WF_vars((\E t \in timers : Fire(t)) /\ UNCHANGED <<rvars, hvars, vvars, tvars>>)
  /\ WF_vars(ForeverTick /\ UNCHANGED <<rvars, hvars, vvars, tvars>>)

\* the manager on a host that oversleeps
NextLate == LNext /\ UNCHANGED <<rvars, hvars, vvars, tvars>>
SpecLate == InitManager /\ [][NextLate]_vars

\* ------------------------------------------------- the resolver's claims
\* the day a returned TimeInfo names, and the first day of the call
ReturnedDay == ParseYMD(result.tradeDate)
AskedDay == ParseYMD(argDate)

\* the direction the call asked for: backward when below 0, forward otherwise
AskedDirection == IF argDirection # <<>> /\ argDirection[1] < 0 THEN -1 ELSE 1

\* the instant of wall clock tick `point` of day d in the calendar's zone
CalendarInstant(d, point) == (d * DayLen + point) - timezoneName

\* an instant the holiday source speaks of, carried to the calendar's zone
\* (the wall clock it has in the process zone, read in the calendar's zone)
InCalendarZone(time) == (time + localZone) - timezoneName

\* the session bounds the holiday source was asked about for day d
AskedStart(d) == (d * DayLen + ConfigStart) - localZone
AskedEnd(d) == (d * DayLen + ConfigEnd) - localZone

\* every instant of [a, b] lies in one of the intervals of items
FullyClosed(items, a, b) ==
  \A t \in a .. (b - 1) :
    \E i \in DOMAIN items : items[i].start <= t /\ t + 1 <= items[i].end

\* C1: every TimeInfo the resolver returns names a Monday-to-Friday day and
\* carries at least one period, whatever the start date, the direction and
\* the answers of the holiday source.
C1_WeekdayWithPeriods ==
  pc = "done" =>
    /\ Days(ReturnedDay) \in 1 .. 5
    /\ Len(result.timePeriods) >= 1

\* C1 witness: a call that passed over a weekend day and a closed weekday
\* before it returned.
C1_Witness ==
  /\ pc = "done"
  /\ \E i \in DOMAIN trail : trail[i].weekend
  /\ \E i \in DOMAIN trail : ~trail[i].weekend
  /\ Len(result.timePeriods) >= 1

\* C2: timeInfo returns the first day, from `date` on and stepping one day
\* backward when direction < 0 and forward otherwise, that is a weekday whose
\* session is not fully closed by holidays; every day passed over is a
\* weekend day or a day left with zero periods.
C2_FirstOpenDay ==
  pc = "done" =>
    /\ Len(trail) = (ReturnedDay - AskedDay) * AskedDirection
    /\ \A i \in DOMAIN trail :
         /\ trail[i].day = AskedDay + (i - 1) * AskedDirection
         /\ trail[i].weekend <=> Days(trail[i].day) \in {0, 6}
    /\ Days(ReturnedDay) \in 1 .. 5
    /\ ~FullyClosed(answer.items, AskedStart(ReturnedDay), AskedEnd(ReturnedDay))

\* C3: a weekday for which the holiday source reports no interval is not
\* passed over, and is returned with exactly one period, the session from
\* config.start to config.end of that day in the calendar's zone, and with
\* dayStart and dayEnd the day's first and last instant.
C3_NoHolidayFullSession ==
  /\ \A i \in DOMAIN trail : ~trail[i].weekend => trail[i].reported
  /\ (pc = "done" /\ Len(answer.items) = 0) =>
       /\ result.timePeriods =
            <<Interval(CalendarInstant(ReturnedDay, ConfigStart),
                       CalendarInstant(ReturnedDay, ConfigEnd))>>
       /\ result.dayStart = CalendarInstant(ReturnedDay, 0)
       /\ result.dayEnd = CalendarInstant(ReturnedDay, DayLen - 1)
       /\ (Days(AskedDay) \in 1 .. 5 /\ trail = <<>>) => result.tradeDate = argDate

\* C3 witness: timeInfo(20170801) of the Asia/Shanghai calendar with an
\* empty list of holidays.
C3_Witness ==
  /\ pc = "done"
  /\ timezoneName = 2
  /\ argDate = 20170801
  /\ ~answer.null
  /\ Len(answer.items) = 0
  /\ result.tradeDate = 20170801
  /\ Len(result.timePeriods) = 1

\* C4: a weekday whose whole session is covered by a holiday is never
\* returned; from such a Friday a forward search returns the following
\* Monday, and the periods returned are those of the returned day alone.
C4_CoveredDayNeverReturned ==
  pc = "done" =>
    /\ ~\E i \in DOMAIN answer.items :
          /\ answer.items[i].start <= AskedStart(ReturnedDay)
          /\ answer.items[i].end >= AskedEnd(ReturnedDay)
    /\ (Days(AskedDay) = 5 /\ AskedDirection = 1 /\ Len(trail) = 3)
          => ReturnedDay = AskedDay + 3
    /\ result.timePeriods = DayPeriods(<<>>, ReturnedDay, holidays)

\* C5: when exactly one merged holiday interval h overlaps the session of
\* the returned weekday without covering it, the periods are the session
\* minus the holiday: [sessionStart, h.start] exactly when h.start is after
\* sessionStart, then [h.end, sessionEnd] exactly when h.end is before
\* sessionEnd (all in the calendar's zone).
C5_SessionMinusHoliday ==
  pc = "done" =>
    LET s == AskedStart(ReturnedDay)
        e == AskedEnd(ReturnedDay)
        overlapping == {i \in DOMAIN holidays : holidays[i].start < e /\ holidays[i].end > s}
    IN  Cardinality(overlapping) = 1 =>
          LET h == holidays[CHOOSE i \in overlapping : TRUE]
              morning == IF h.start > s
                           THEN <<Interval(CalendarInstant(ReturnedDay, ConfigStart),
                                           InCalendarZone(h.start))>>
                           ELSE <<>>
              afternoon == IF h.end < e
                             THEN <<Interval(InCalendarZone(h.end),
                                             CalendarInstant(ReturnedDay, ConfigEnd))>>
                             ELSE <<>>
          IN  ~(h.start <= s /\ h.end >= e) => result.timePeriods = morning \o afternoon

\* C6: the periods of a returned TimeInfo are in chronological order and do
\* not overlap: each period ends no later than the next one starts.
C6_PeriodsOrdered ==
  pc = "done" =>
    \A i \in 1 .. (Len(result.timePeriods) - 1) :
      result.timePeriods[i].end <= result.timePeriods[i + 1].start

\* C7: every period of a returned TimeInfo has start < end and lies inside
\* [dayStart, dayEnd] of the trade date.
C7_PeriodsInsideDay ==
  pc = "done" =>
    \A i \in DOMAIN result.timePeriods :
      /\ result.timePeriods[i].start < result.timePeriods[i].end
      /\ result.dayStart <= result.timePeriods[i].start
      /\ result.timePeriods[i].end <= result.dayEnd

\* ----------------------------------------- the normalisation's claims
\* ascending by start and disjoint: each interval starts after the one
\* before it has ended
AscendingDisjoint(rs) ==
  \A i \in 1 .. (Len(rs) - 1) : rs[i].end < rs[i + 1].start

\* C8: for any input list, findHolidays returns a list that is ascending by
\* start and pairwise disjoint; its intervals start where intervals of the
\* input start, the first one at the earliest start of the input, and an
\* interval of the input opens a new interval of the result only if it starts
\* after the end reached so far.
C8_SortedDisjoint ==
  hpc \in {"found", "again"} =>
    /\ AscendingDisjoint(hOutput)
    /\ \A i \in DOMAIN hOutput :
         /\ hOutput[i].start < hOutput[i].end
         /\ \E j \in DOMAIN hInput.items : hInput.items[j].start = hOutput[i].start
    /\ Len(hOutput) <= Len(hInput.items)
    /\ (Len(hInput.items) > 0) =>
         /\ Len(hOutput) > 0
         /\ \A j \in DOMAIN hInput.items : hOutput[1].start <= hInput.items[j].start

\* C8 witness: three intervals given out of order, two of which were merged.
C8_Witness ==
  /\ hpc = "found"
  /\ Len(hInput.items) = 3
  /\ hInput.items[1].start > hInput.items[2].start
  /\ Len(hOutput) = 2

\* C9: normalisation is idempotent: a list that is already ascending and
\* disjoint comes back unchanged, and so does the result of a normalisation.
C9_Idempotent ==
  /\ (hpc \in {"found", "again"} /\ AscendingDisjoint(hInput.items)) => hOutput = hInput.items
  /\ hpc = "again" => hAgain = hOutput

\* C9 witness: a normalisation that changed its input and produced two
\* intervals was applied a second time.
C9_Witness ==
  /\ hpc = "again"
  /\ Len(hOutput) >= 2
  /\ hOutput # hInput.items
  /\ hAgain = hOutput

\* ------------------------------------------------ the transform's claims
\* C10: realStamp(timestamp(t)) = t for every real timestamp t, t = 0 and a
\* t whose virtual image is 0 included.
C10_RoundTrip ==
  vpc = "real" => vReal = Num(vTime)

\* a calendar exists and its last reload (or its construction) returned
Reloaded == vpc \in {"ready", "virtual", "real"} /\ vError = ""

\* timestamp(t) is v whatever Date.now() reads
TimestampIs(t, v) == \A now \in 1 .. MaxNow : Timestamp(Num(t), now) = Num(v)

\* C11: after a construction or reload that returned, the anchors follow the
\* strategy table: SYSTEM has realBase = virtualBase = 0 and ratio 1 and
\* timestamp(t) = t for every t; STANDARD has realBase = virtualBase =
\* standard and timestamp(standard) = standard; START has realBase =
\* startTime, virtualBase = standard and timestamp(startTime) = standard;
\* CUSTOM has realBase = custom, virtualBase = standard and
\* timestamp(custom) = standard.
C11_StrategyTable ==
  Reloaded =>
    /\ strategy = "SYSTEM" =>
          /\ realBase = 0 /\ virtualBase = 0 /\ timeRatio = Num(1)
          /\ \A t \in 0 .. MaxReal : TimestampIs(t, t)
    /\ strategy = "STANDARD" =>
          /\ realBase = vConfig.standard /\ virtualBase = vConfig.standard
          /\ TimestampIs(vConfig.standard, vConfig.standard)
    /\ strategy = "START" =>
          /\ realBase = startTime /\ virtualBase = vConfig.standard
          /\ TimestampIs(startTime, vConfig.standard)
    /\ strategy = "CUSTOM" =>
          /\ realBase = vConfig.custom[1] /\ virtualBase = vConfig.standard
          /\ TimestampIs(vConfig.custom[1], vConfig.standard)

\* the configurations that must be refused
CustomWithoutCustom(vc) == StrategyOf(vc) = "CUSTOM" /\ vc.custom = <<>>
UnknownStrategy(vc) == StrategyOf(vc) \notin {"SYSTEM", "STANDARD", "START", "CUSTOM"}

\* C12: constructing or reloading with strategy CUSTOM and no custom value,
\* or with a strategy that is none of SYSTEM, STANDARD, START, CUSTOM, fails
\* with an error; a construction that failed leaves no calendar: nothing is
\* ever transformed or reloaded after it.
C12_ConfigurationError ==
  /\ (CustomWithoutCustom(vConfig) \/ UnknownStrategy(vConfig)) => vpc = "failed"
  /\ [](CustomWithoutCustom(vConfig) => vError = "AssertionError")
  /\ [](UnknownStrategy(vConfig) => vError = "INVALID_STRATEGY")
  /\ [][vpc # "failed"]_vvars

C12_Witness ==
  /\ vpc = "ready"
  /\ vError = "AssertionError"
  /\ CustomWithoutCustom(vConfig)
  /\ realBase # 0

\* C13: a reload that fails leaves realBase, virtualBase, the ratio, the
\* strategy and the merged configuration exactly as they were before the call.
C13_ReloadAtomic ==
  [][(vpc = "ready" /\ vpc' = "ready" /\ vError' # "")
       => UNCHANGED <<realBase, virtualBase, timeRatio, strategy, vConfig>>]_vvars

\* ------------------------------------------------- realTimeInfo's claims
\* a TimeInfo whose timestamp fields are those of timeInfo moved by shift
Shifted(timeInfo, shift) ==
  [tradeDate |-> timeInfo.tradeDate,
   timePeriods |-> [i \in 1 .. Len(timeInfo.timePeriods) |->
                      Interval(Num(timeInfo.timePeriods[i].start + shift),
                               Num(timeInfo.timePeriods[i].end + shift))],
   dayStart |-> Num(timeInfo.dayStart + shift),
   dayEnd |-> Num(timeInfo.dayEnd + shift)]

\* C14: realTimeInfo(date, direction) returns the tradeDate of
\* timeInfo(date, direction); on the base calendar every timestamp field is
\* timeInfo's field, and on a virtual calendar of ratio 1 every field is
\* timeInfo's field moved by realBase - virtualBase.
C14_RealTimeInfo ==
  realInfo # NoRealInfo =>
    /\ realInfo.tradeDate = result.tradeDate
    /\ vpc = "idle" => realInfo = Shifted(result, 0)
    /\ (vpc = "ready" /\ timeRatio = Num(1)) =>
          realInfo = Shifted(result, realBase - virtualBase)

\* ------------------------------------------------- the manager's claims
\* C15: start(name, calendar) with name bound to another calendar instance
\* rejects with REPEAT_NAME, keeps the binding and begins no pass; with the
\* same instance, an unbound name, or the name alone when it is bound, the
\* call is accepted, binds the name and begins a pass whose anchor is 0.
C15_RepeatName ==
  [][/\ \A name \in Names, c \in Calendars :
          Start(name, c) =>
            IF calendars[name] # 0 /\ calendars[name] # c
              THEN /\ rejected' = Append(rejected, [name |-> name, code |-> "REPEAT_NAME"])
                   /\ UNCHANGED <<calendars, passes, cal, timers>>
              ELSE /\ UNCHANGED rejected
                   /\ calendars'[name] = c
                   /\ Len(passes') = Len(passes) + 1
                   /\ passes'[Len(passes')].name = name
                   /\ passes'[Len(passes')].cal = c
                   /\ passes'[Len(passes')].start = 0
     /\ \A name \in Names :
          (StartByName(name) /\ calendars[name] # 0) =>
            /\ UNCHANGED <<rejected, calendars>>
            /\ Len(passes') = Len(passes) + 1
            /\ passes'[Len(passes')].cal = calendars[name]
            /\ passes'[Len(passes')].start = 0]_vars

C15_Witness ==
  /\ \E i \in DOMAIN rejected : rejected[i].code = "REPEAT_NAME"
  /\ \E name \in Names : calendars[name] # 0
  /\ passes = <<>>
  /\ timers # {}

\* C16: when the holiday source fails in the pass start() runs itself,
\* start() rejects with the error, and the failing pass arms no timer: no
\* retry timer, no lifecycle timer.
C16_StartRejects ==
  [][\A i \in DOMAIN passes :
       (Fail(i) /\ passes[i].origin = "start") =>
         /\ rejected' = Append(rejected, [name |-> passes[i].name, code |-> "HolidayError"])
         /\ UNCHANGED <<timers, unhandled>>]_vars

C16_Witness ==
  /\ \E i \in DOMAIN rejected : rejected[i].code = "HolidayError"
  /\ failures = 1
  /\ timers = {}
  /\ passes = <<>>

\* C17: when the holiday source fails in a pass begun by a timer, the error
\* leaves no callback unhandled, and a retry timer for the same calendar
\* with the same anchor is armed, due the retry delay later.
C17_ScheduledRetry ==
  [][\A i \in DOMAIN passes :
       (Fail(i) /\ passes[i].origin = "timer") =>
         /\ UNCHANGED unhandled
         /\ \E t \in timers' \ timers :
              /\ t.kind = "retry"
              /\ t.cal = passes[i].cal
              /\ t.anchor = passes[i].start
              /\ t.due = clock + RetryDelay]_vars

\* C18: right after stop(name) for a bound name no timer of its calendar is
\* pending, and right after stopAll() no timer of any bound calendar is.
C18_StopCancelsAll ==
  [][/\ \A name \in Names :
          (Stop(name) /\ calendars[name] # 0) =>
            \A t \in timers' : t.cal # calendars[name]
     /\ StopAll => \A t \in timers', name \in Names : t.cal # calendars[name]]_vars

\* C19: while a calendar is stopped (stop was called for it and start was
\* not called since), no step emits an event for it and no step arms a
\* timer for it.
C19_StoppedIsTerminal ==
  [][\A c \in Calendars :
       (stopped[c] /\ stopped'[c]) =>
         /\ \A i \in DOMAIN events' : events'[i].cal # c
         /\ {t \in timers' : t.cal = c} \subseteq {t \in timers : t.cal = c}]_vars

\* the market open of the trade date an event names, and whether the
\* trade-date-change e was emitted on its own trade date before that open
MarketOpenOf(ymd) == Head(ResolveFrom(ParseYMD(ymd), 1).timePeriods).start
BeforeOpen(e) ==
  /\ e.type = "trade-date-change"
  /\ Today(e.at) = ParseYMD(e.tradeDate)
  /\ e.at < MarketOpenOf(e.tradeDate)

\* C20: in a run of one start call, with no stop and no failure, the events
\* of one calendar and trade date come in the order trade-date-change,
\* system-period-change, market-open, market-close, after-market-close;
\* when the trade-date-change came on that day before its market open,
\* market-open comes before market-close; and the step that emits
\* after-market-close begins a pass anchored at the day after the trade date.
C20_LifecycleOrder ==
  (starts = 1 /\ stops = 0 /\ failures = 0) =>
    \A i \in DOMAIN events :
      LET e == events[i]
          before == emitted \cup {events[j] : j \in 1 .. (i - 1)}
          same == {b \in before : b.cal = e.cal /\ b.tradeDate = e.tradeDate}
          Was(type) == \E b \in same : b.type = type
          early == \E b \in same : BeforeOpen(b)
      IN  /\ e.type = "trade-date-change" => same = {}
          /\ e.type = "system-period-change" =>
                /\ Was("trade-date-change")
                /\ ~Was("market-open") /\ ~Was("market-close")
                /\ ~Was("after-market-close")
          /\ e.type = "market-open" =>
                /\ Was("trade-date-change") /\ Was("system-period-change")
                /\ ~Was("market-close") /\ ~Was("after-market-close")
          /\ e.type = "market-close" =>
                /\ Was("trade-date-change") /\ Was("system-period-change")
                /\ early => Was("market-open")
                /\ ~Was("after-market-close")
          /\ e.type = "after-market-close" =>
                /\ Was("trade-date-change") /\ Was("system-period-change")
                /\ Was("market-close")
                /\ early => Was("market-open")
                /\ passes # <<>>
                /\ passes[Len(passes)].cal = e.cal
                /\ passes[Len(passes)].stage = "info"
                /\ passes[Len(passes)].start = AddDays(e.tradeDate, 1)
                /\ passes[Len(passes)].anchor = ParseYMD(e.tradeDate) + 1

C20_Witness ==
  /\ starts = 1 /\ stops = 0 /\ failures = 0
  /\ \E i \in DOMAIN events : events[i].type = "after-market-close"
  /\ \E b \in emitted : BeforeOpen(b)
  /\ \E b \in emitted : b.type = "market-open"
  /\ \E b \in emitted : b.type = "market-close"
  /\ \E b \in emitted : b.type = "system-period-change"

C22_OpenTimerBeforeOpen ==
  [][/\ \A t \in timers' \ timers : t.kind = "open" => ~t.clamped
     /\ \A t \in timers' \ timers :
          t.kind = "terminal" =>
            \E u \in timers' \ timers : u.kind = "close" /\ u.cal = t.cal]_vars

\* C23: at no time are two passes of the same calendar suspended.
C23_OnePassPerCalendar ==
  \A i \in DOMAIN passes, j \in DOMAIN passes :
    passes[i].cal = passes[j].cal => i = j

\* the step is a call, a pass, a failure or a timer firing of name a
StepOf(a) ==
  \/ \E c \in Calendars : Start(a, c)
  \/ Stop(a)
  \/ \E i \in DOMAIN passes :
       passes[i].name = a /\ (ResumeInfo(i) \/ ResumePrev(i) \/ ResumeNext(i) \/ Fail(i))
  \/ \E t \in timers : t.name = a /\ Fire(t)

\* the step leaves the calendar fields and the pending timers of name b as
\* they were
Untouched(b) ==
  /\ calendars'[b] = calendars[b]
  /\ cal'[calendars[b]] = cal[calendars[b]]
  /\ {t \in timers' : t.name = b} = {t \in timers : t.name = b}

\* C24: a start, a stop, a pass, a failure or a timer firing of one name
\* leaves the trade-date fields, the period queue, the current period and
\* the pending timers of every other bound name unchanged.
C24_NamesIndependent ==
  [][\A a \in Names, b \in Names :
       (a # b /\ calendars[b] # 0 /\ StepOf(a)) => Untouched(b)]_vars

\* C25: when a listener throws, the pass that emitted trade-date-change
\* still arms the terminal timer of its calendar, the callback that emitted
\* after-market-close still begins the pass of the next day, and the
\* callback that emitted system-time-end still makes the next queued period
\* the current one.
C25_ListenerThrowKeepsScheduler ==
  [][/\ \A i \in DOMAIN passes :
          ThrowInPass(i) =>
            \E t \in timers' \ timers : t.kind = "terminal" /\ t.cal = passes[i].cal
     /\ \A t \in timers :
          (ThrowInTimer(t) /\ t.kind = "terminal") =>
            /\ Len(passes') = Len(passes) + 1
            /\ passes'[Len(passes')].cal = t.cal
     /\ \A t \in timers :
          (ThrowInTimer(t) /\ t.kind = "end" /\ cal[t.cal].systemPeriods # <<>>) =>
            cal'[t.cal].systemPeriod = <<Head(cal[t.cal].systemPeriods)>>]_vars

\* C26: stop(name) leaves the manager with no binding for name, and a
\* start(name, calendar) that follows a stop(name) is never rejected for a
\* repeated name.
C26_StopDestroysEntry ==
  [][/\ \A name \in Names : Stop(name) => calendars'[name] = 0
     /\ \A name \in Names, c \in Calendars :
          (calendars[name] # 0 /\ stopped[calendars[name]] /\ Start(name, c)) =>
            UNCHANGED rejected]_vars

\* C28: a virtual calendar whose configuration gives no oneDay has the
\* ratio 1; with the STANDARD strategy timestamp(t) is t and realStamp of it
\* is t again, and neither is NaN.
C28_NoOneDayNoDilation ==
  (vpc \in {"ready", "virtual", "real"} /\ vConfig.oneDay = <<>>) =>
    /\ timeRatio = Num(1)
    /\ vpc \in {"virtual", "real"} =>
          /\ vVirtual # NaN
          /\ (strategy = "STANDARD" /\ vTime # 0) => vVirtual = Num(vTime)
    /\ vpc = "real" =>
          /\ vReal # NaN
          /\ (strategy = "STANDARD" /\ vTime # 0) => vReal = Num(vTime)

\* C27: the host waits, in real time, the delay in calendar time multiplied
\* by the ratio: setTimeout(fn, d) waits d * ratio, and setTimeoutAt(fn, T)
\* waits (T - the calendar's current time) * ratio, which on a calendar of
\* ratio 1 whose bases are equal is T - now.
C27_DelaysInCalendarTime ==
  /\ vWait.kind = "setTimeout" =>
        vWait.delay = Times(Num(vWait.arg), timeRatio)
  /\ vWait.kind = "setTimeoutAt" =>
        /\ vWait.delay =
              Times(Minus(Num(vWait.arg), Timestamp(Num(0), vWait.now)), timeRatio)
        /\ (timeRatio = Num(1) /\ realBase = virtualBase) =>
              vWait.delay = Num(vWait.arg - vWait.now)

\* the trade-date fields of a calendar, and the trade-date-change events of
\* a batch
TradeDateFields(k) == <<k.tradeDate, k.preTradeDate, k.nextTradeDate, k.dayStart, k.dayEnd>>
Changes(batch) == {j \in DOMAIN batch : batch[j].type = "trade-date-change"}

\* C29: a pass that resolved the stored trade date finishes without a
\* trade-date-change and with the trade-date fields as they were; a pass
\* that resolved another date takes preTradeDate from the stored date, or
\* from a backward search from the day before when none is stored, takes
\* nextTradeDate from a forward search from the day after, stores
\* tradeDate, dayStart and dayEnd of the resolved day, and emits one
\* trade-date-change that carries the new date and the two neighbours.
C29_TradeDateChange ==
  [][/\ \A i \in DOMAIN passes :
          LET p == passes[i]
              c == p.cal
              found == ResolveFrom(p.anchor, 1)
          IN  (ResumeInfo(i) /\ p.at <= AfterMarketEnd(found.tradeDate)) =>
                IF cal[c].tradeDate = found.tradeDate
                  THEN /\ Changes(events') = {}
                       /\ TradeDateFields(cal'[c]) = TradeDateFields(cal[c])
                       /\ Len(passes') = Len(passes) - 1
                  ELSE /\ events' = <<>>
                       /\ Len(passes') = Len(passes)
                       /\ passes'[i].info.tradeDate = found.tradeDate
                       /\ cal'[c].tradeDate = cal[c].tradeDate
                       /\ IF cal[c].tradeDate > 0
                            THEN /\ cal'[c].preTradeDate = cal[c].tradeDate
                                 /\ passes'[i].stage = "next"
                            ELSE /\ cal'[c].preTradeDate = cal[c].preTradeDate
                                 /\ passes'[i].stage = "prev"
     /\ \A i \in DOMAIN passes :
          ResumePrev(i) =>
            /\ cal'[passes[i].cal].preTradeDate =
                  ResolveFrom(ParseYMD(passes[i].info.tradeDate) - 1, -1).tradeDate
            /\ passes'[i].stage = "next"
            /\ events' = <<>>
     /\ \A i \in DOMAIN passes :
          LET p == passes[i]
              c == p.cal
              info == ResolveFrom(ParseYMD(p.info.tradeDate), 1)
          IN  ResumeNext(i) =>
                /\ cal'[c].tradeDate = p.info.tradeDate
                /\ cal'[c].dayStart = info.dayStart
                /\ cal'[c].dayEnd = info.dayEnd
                /\ cal'[c].preTradeDate = cal[c].preTradeDate
                /\ cal'[c].nextTradeDate =
                      ResolveFrom(ParseYMD(p.info.tradeDate) + 1, 1).tradeDate
                /\ Changes(events') = {1}
                /\ events'[1].cal = c
                /\ events'[1].tradeDate = cal'[c].tradeDate
                /\ events'[1].preTradeDate = cal'[c].preTradeDate
                /\ events'[1].nextTradeDate = cal'[c].nextTradeDate
                /\ starts = 1 =>
                      cal'[c].preTradeDate =
                        IF cal[c].tradeDate > 0 THEN cal[c].tradeDate
                        ELSE ResolveFrom(ParseYMD(p.info.tradeDate) - 1, -1).tradeDate]_vars

\* C29 witness: the first pass announced a date found by the backward
\* search, and the pass of the next day announces the date after it with
\* the first date as its predecessor.
C29_Witness ==
  /\ \E j \in Changes(events), b \in emitted :
       /\ b.type = "trade-date-change"
       /\ b.cal = events[j].cal
       /\ b.preTradeDate # 0
       /\ b.preTradeDate < b.tradeDate
       /\ events[j].preTradeDate = b.tradeDate
       /\ events[j].tradeDate = b.nextTradeDate
       /\ cal[b.cal].tradeDate = events[j].tradeDate

\* the periods resolved for the trade date an event names
PeriodsOf(ymd) == ResolveFrom(ParseYMD(ymd), 1).timePeriods

\* C30: in a run of one start call, the periods of a trade date become the
\* current period in chronological order, each once; every system-period-change carries the
\* new current period and the periods that remain queued after it;
\* system-time-start of a period comes before its system-time-end; the
\* step that emits system-time-end of a period advances to the next one,
\* and after the end of the last period no period timer is pending.
C30_PeriodAdvance ==
  starts = 1 =>
  \A i \in DOMAIN events :
    LET e == events[i]
        all == PeriodsOf(e.tradeDate)
        before == emitted \cup {events[j] : j \in 1 .. (i - 1)}
        same == {b \in before : b.cal = e.cal /\ b.tradeDate = e.tradeDate}
        Was(type, period) == \E b \in same : b.type = type /\ b.period = <<period>>
    IN  e.type \in {"system-period-change", "system-time-start", "system-time-end"} =>
          \E k \in DOMAIN all :
            /\ e.period = <<all[k]>>
            /\ e.type = "system-period-change" =>
                  /\ e.queue = SubSeq(all, k + 1, Len(all))
                  /\ ~Was("system-period-change", all[k])
                  /\ \A j \in 1 .. (k - 1) :
                       /\ Was("system-period-change", all[j])
                       /\ Was("system-time-end", all[j])
            /\ e.type = "system-time-start" =>
                  /\ Was("system-period-change", all[k])
                  /\ ~Was("system-time-end", all[k])
            /\ e.type = "system-time-end" =>
                  /\ Was("system-period-change", all[k])
                  /\ Was("system-time-start", all[k])
                  /\ IF k < Len(all)
                       THEN /\ i < Len(events)
                            /\ events[i + 1].type = "system-period-change"
                            /\ events[i + 1].cal = e.cal
                            /\ events[i + 1].period = <<all[k + 1]>>
                            /\ cal[e.cal].systemPeriod = <<all[k + 1]>>
                       ELSE \A t \in timers :
                              t.cal = e.cal => t.kind \notin {"start", "end"}

\* C30 witness: the second of two periods ends after the first one ended,
\* and no period timer is left.
C30_Witness ==
  /\ starts = 1
  /\ \E i \in DOMAIN events :
       LET e == events[i]
           all == PeriodsOf(e.tradeDate)
       IN  /\ e.type = "system-time-end"
           /\ Len(all) = 2
           /\ e.period = <<all[2]>>
           /\ \E b \in emitted :
                /\ b.type = "system-time-end" /\ b.cal = e.cal /\ b.period = <<all[1]>>
           /\ \E b \in emitted :
                /\ b.type = "system-period-change" /\ b.cal = e.cal
                /\ b.period = <<all[1]>> /\ b.queue = <<all[2]>>
           /\ \A t \in timers : t.kind \notin {"start", "end"}

\* the pending timers of one kind of a calendar
Pending(c, kind) == {t \in timers : t.cal = c /\ t.kind = kind}

\* C31: a calendar has at most one pending terminal timer, the one its
\* _timeInfoHandler names, and never a terminal timer and a retry timer
\* together.
C31_OneTerminalTimer ==
  \A c \in Calendars :
    /\ Cardinality(Pending(c, "terminal")) <= 1
    /\ \A t \in Pending(c, "terminal") : cal[c].timeInfoHandler = t.id
    /\ Pending(c, "terminal") = {} \/ Pending(c, "retry") = {}

\* C31 witness: a second pass of the same day finished and replaced the
\* terminal timer the first one had armed.
C31_Witness ==
  /\ starts = 2
  /\ passes = <<>>
  /\ \E c \in Calendars :
       /\ Pending(c, "terminal") # {}
       /\ \E i \in DOMAIN events, b \in emitted :
            /\ events[i].type = "system-period-change" /\ events[i].cal = c
            /\ b.type = "system-period-change" /\ b.cal = c
            /\ b.tradeDate = events[i].tradeDate
            /\ b.period = events[i].period
            /\ \E x \in emitted : x.type = "system-time-start" /\ x.cal = c /\ x.at >= b.at

\* C32: a calendar has at most one pending period-start timer and at most
\* one pending period-end timer, and every pending period timer waits for a
\* boundary of the current period.
C32_OnePeriodTimerEach ==
  \A c \in Calendars :
    /\ Cardinality(Pending(c, "start")) <= 1
    /\ Cardinality(Pending(c, "end")) <= 1
    /\ \A t \in Pending(c, "start") : cal[c].systemPeriod = <<>> \/ t.time = cal[c].systemPeriod[1].start
    /\ \A t \in Pending(c, "end") : cal[c].systemPeriod = <<>> \/ t.time = cal[c].systemPeriod[1].end

\* the event the listener of a realTimeoutAt timer emits first
ListenerEvent(kind) == IF kind = "start" THEN "system-time-start" ELSE "system-time-end"

\* C33: when the host runs a realTimeoutAt timer before its instant, the
\* listener is not run and a timer for the same listener is armed for the
\* delay that remains, in place of the one that was run; when the host runs
\* it at or after its instant, the listener is run in that step, once.
C33_SelfCorrectingTimer ==
  [][\A t \in timers :
       (t.kind \in {"start", "end"} /\ Fire(t)) =>
         IF clock < t.time
           THEN /\ events' = <<>>
                /\ cal' = cal
                /\ \E u \in timers' :
                     /\ timers' = (timers \ {t}) \cup {u}
                     /\ u.kind = t.kind /\ u.cal = t.cal /\ u.time = t.time
                     /\ u.due = t.time
           ELSE /\ events' # <<>>
                /\ events'[1].type = ListenerEvent(t.kind)
                /\ events'[1].cal = t.cal
                /\ events'[1].at >= t.time
                /\ Cardinality({j \in DOMAIN events' :
                                  events'[j].type = ListenerEvent(t.kind)}) = 1]_vars

\* C33 witness: a period-start timer was run early and armed again, and the
\* period has not started.
C33_Witness ==
  /\ earlies = 1
  /\ events = <<>>
  /\ \E t \in timers :
       /\ t.kind = "start"
       /\ t.id # cal[t.cal].startTimeHandler
       /\ t.due = t.time
       /\ clock < t.time
       /\ \A b \in emitted : b.type # "system-time-start"

\* the latest step emitted an event of a type for calendar c
Emits(type, c) ==
  {events[i] : i \in {j \in DOMAIN events :
                        events[j].type = type /\ events[j].cal = c}}
\* the after-market-close events of calendar c so far
Closings(c) ==
  {x \in emitted \cup Emits("after-market-close", c) :
     x.type = "after-market-close" /\ x.cal = c}

\* C34: a calendar that holds a terminal timer for a boundary within the
\* modelled days comes to emit after-market-close, unless a later pass has
\* replaced the timer by one for a boundary after the modelled days, and
\* every after-market-close is followed by a trade-date-change of the same
\* calendar for a trade date later than the one that closed.
C34_SelfPerpetuation ==
  \A c \in Calendars :
    /\ (\E t \in Pending(c, "terminal") : t.due <= ForeverEnd)
          ~> \/ Emits("after-market-close", c) # {}
             \/ \E t \in Pending(c, "terminal") : t.due > ForeverEnd
    /\ (Emits("after-market-close", c) # {})
          ~> \E e \in Emits("trade-date-change", c) :
               /\ Closings(c) # {}
               /\ \A x \in Closings(c) : x.tradeDate < e.tradeDate

\* C34 witness: the third trade date of a run is announced, after the
\* after-market-close of the two before it.
C34_Witness ==
  \E c \in Calendars, d \in {FormatYMD(k) : k \in Day} :
    /\ \E e \in Emits("trade-date-change", c) : e.tradeDate = d
    /\ \E x \in emitted, y \in emitted :
         /\ x.type = "after-market-close" /\ y.type = "after-market-close"
         /\ x.cal = c /\ y.cal = c
         /\ x.tradeDate < y.tradeDate /\ y.tradeDate < d

\* the answer, among those the holiday source may give for the loop's
\* candidate day, makes the loop go on to the next day
GoesOn(ans) ==
  LET hs == FindHolidays(ans)
  IN  Len(hs) > 0 /\ Len(DayPeriods(timePeriods, date, hs)) = 0

\* C35, first part: at a weekday whose session the answer of the holiday
\* source does not fully cover, the loop returns.
C35_OpenDayReturns ==
  (pc = "loop" /\ IsWeekday(date)) =>
    \A n \in 0 .. MaxAnswer : \A shape \in AnswerShapes(n) :
      LET ans == AnswerFor(date, shape)
      IN  ~FullyClosed(ans.items, AskedStart(date), AskedEnd(date)) => ~GoesOn(ans)

\* C35, second part: the loop does not return at a day that the holiday
\* source reports as fully closed, so that it goes on for as long as the
\* source reports closed days.
C35_ClosedDaysNeverReturned ==
  [][(pc = "loop" /\ pc' = "done") =>
       ~FullyClosed(answer'.items, AskedStart(date), AskedEnd(date))]_vars

\* the loop has passed over every modelled day and has not returned
C35_PassesEveryDay ==
  /\ pc = "loop"
  /\ Len(trail) = NumDays - 1
  /\ \E i \in DOMAIN trail : ~trail[i].weekend

\* C36: every instant covered by an interval the holiday source returned
\* is covered by an interval of findHolidays' result.
C36_NoHolidayTimeLost ==
  hpc \in {"found", "again"} =>
    \A i \in DOMAIN hInput.items :
      \A t \in hInput.items[i].start .. (hInput.items[i].end - 1) :
        \E j \in DOMAIN hOutput : hOutput[j].start <= t /\ t + 1 <= hOutput[j].end

\* the trade-date-change events of calendar c so far, and those of the
\* latest step
Announced(c) ==
  {x \in emitted \cup {events[i] : i \in DOMAIN events} :
     x.type = "trade-date-change" /\ x.cal = c}
\* the stored neighbours lie on either side of the stored trade date, once
\* a pass has stored one
StoredDatesOrdered ==
  \A c \in Calendars :
    cal[c].tradeDate > 0 =>
      /\ cal[c].preTradeDate < cal[c].tradeDate
      /\ cal[c].tradeDate < cal[c].nextTradeDate
\* so do the neighbours every trade-date-change carries
AnnouncedDatesOrdered ==
  \A c \in Calendars : \A x \in Announced(c) :
    x.preTradeDate < x.tradeDate /\ x.tradeDate < x.nextTradeDate
\* a trade-date-change announces a date later than every one announced for
\* the calendar before
AnnouncedDatesIncrease ==
  \A c \in Calendars : \A e \in Emits("trade-date-change", c) :
    \A x \in emitted :
      (x.type = "trade-date-change" /\ x.cal = c) => x.tradeDate < e.tradeDate

\* C37: in every state after the first successful pass and in every
\* trade-date-change, preTradeDate < tradeDate < nextTradeDate, and the
\* dates announced for one calendar strictly increase.
C37_TradeDatesOrdered ==
  /\ StoredDatesOrdered
  /\ AnnouncedDatesOrdered
  /\ AnnouncedDatesIncrease

\* what a backward resolution from the day before a trade date returns
NearestBefore(ymd) == ResolveFrom(ParseYMD(ymd) - 1, -1).tradeDate

\* C38: the previous trade date every trade-date-change carries is the
\* nearest trade date before the new one, also when the pass ran late and
\* skipped trading days.
C38_PreviousIsNearest ==
  \A j \in Changes(events) : events[j].preTradeDate = NearestBefore(events[j].tradeDate)

\* the same in runs of one call of start
PreviousIsNearestOneStart ==
  starts = 1 => C38_PreviousIsNearest

\* the events of a type emitted for the calendar and trade date of event e
\* before the latest step, or earlier in it
Earlier(type, j) ==
  {x \in emitted : x.type = type /\ x.cal = events[j].cal
                     /\ x.tradeDate = events[j].tradeDate}
    \cup {events[k] : k \in {i \in 1 .. (j - 1) :
                                 /\ events[i].type = type
                                 /\ events[i].cal = events[j].cal
                                 /\ events[i].tradeDate = events[j].tradeDate}}
\* market-open and market-close are emitted at most once for a calendar
\* and trade date
MarketEventsOnce ==
  \A j \in DOMAIN events :
    events[j].type \in {"market-open", "market-close"} =>
      Earlier(events[j].type, j) = {}
\* market-close is emitted after the market-open of the same trade date
CloseAfterOpen ==
  \A j \in DOMAIN events :
    events[j].type = "market-close" => Earlier("market-open", j) # {}

\* C39: for each calendar and trade date market-open is emitted at most
\* once and market-close at most once, and market-close only after
\* market-open, whenever and however often start is called.
C39_OpenAndCloseOnce == MarketEventsOnce /\ CloseAfterOpen

\* the same in runs of one call of start
OpenAndCloseOnceOneStart ==
  starts = 1 => C39_OpenAndCloseOnce
====
